---- MODULE Spec2Model ----
(***************************************************************************)
(* Model of the Academic Research Collaborator backend: the JSON memory    *)
(* store (agents/base.py), the three task agents (agents/*.py) and the     *)
(* request handlers that reach them (main.py).                             *)
(*                                                                         *)
(* A Python str is a sequence of one-character strings, so that split,     *)
(* strip, upper and the substring tests are computed as the code computes  *)
(* them.  Python values carry their type tag (t) and payload (v); JSON     *)
(* values are a separate tagged tree, and json.dump / json.load are the    *)
(* maps between the two.                                                   *)
(***************************************************************************)
EXTENDS Integers, Sequences, FiniteSets, TLC

(***************************************************************************)
(* Bounds of the model.                                                    *)
(***************************************************************************)
MaxOps == 2

(***************************************************************************)
(* Sequences and strings.                                                  *)
(***************************************************************************)
Range(s) == {s[i] : i \in DOMAIN s}

NL == "\n"
Whitespace == {" ", "\t", NL, "\r"}
Digits == {"0", "1", "2", "3", "4", "5", "6", "7", "8", "9"}
LowerLetters == <<"a", "b", "c", "d", "e", "f", "g", "h", "i", "j", "k", "l", "m",
                  "n", "o", "p", "q", "r", "s", "t", "u", "v", "w", "x", "y", "z">>
UpperLetters == <<"A", "B", "C", "D", "E", "F", "G", "H", "I", "J", "K", "L", "M",
                  "N", "O", "P", "Q", "R", "S", "T", "U", "V", "W", "X", "Y", "Z">>

\* str.upper() and str.lower(), one character at a time.
ToUpper == [c \in Range(LowerLetters) |->
              UpperLetters[CHOOSE i \in DOMAIN LowerLetters : LowerLetters[i] = c]]
ToLower == [c \in Range(UpperLetters) |->
              LowerLetters[CHOOSE i \in DOMAIN UpperLetters : UpperLetters[i] = c]]
UpperChar(c) == IF c \in DOMAIN ToUpper THEN ToUpper[c] ELSE c
LowerChar(c) == IF c \in DOMAIN ToLower THEN ToLower[c] ELSE c
Upper(s) == [i \in DOMAIN s |-> UpperChar(s[i])] \o <<>>
Lower(s) == [i \in DOMAIN s |-> LowerChar(s[i])] \o <<>>

\* s[a:b] of Python, 0-based half-open, for 0 <= a.
Slice(s, a, b) ==
    LET hi == IF b > Len(s) THEN Len(s) ELSE b
    IN  IF a >= hi THEN <<>> ELSE SubSeq(s, a + 1, hi)

\* s.startswith(prefix)
StartsWith(s, prefix) ==
    /\ Len(prefix) <= Len(s)
    /\ SubSeq(s, 1, Len(prefix)) = prefix

\* sub in s
Contains(s, sub) ==
    \E i \in 0 .. (Len(s) - Len(sub)) : SubSeq(s, i + 1, i + Len(sub)) = sub

\* s.strip()
Strip(s) ==
    LET keep == {i \in DOMAIN s : s[i] \notin Whitespace}
    IN  IF keep = {} THEN <<>>
        ELSE SubSeq(s, CHOOSE i \in keep : \A j \in keep : i <= j,
                       CHOOSE i \in keep : \A j \in keep : j <= i)

\* s.split('\n'): always at least one piece.
RECURSIVE SplitLines(_)
SplitLines(s) ==
    LET breaks == {i \in DOMAIN s : s[i] = NL}
    IN  IF breaks = {} THEN <<s>>
        ELSE LET k == CHOOSE i \in breaks : \A j \in breaks : i <= j
             IN  <<SubSeq(s, 1, k - 1)>> \o SplitLines(SubSeq(s, k + 1, Len(s)))

\* '\n'.join(lines)
RECURSIVE JoinLines(_)
JoinLines(lines) ==
    IF lines = <<>> THEN <<>>
    ELSE IF Len(lines) = 1 THEN lines[1]
    ELSE lines[1] \o <<NL>> \o JoinLines(Tail(lines))

\* len(s.split()): the number of maximal runs of non-whitespace characters.
WordCount(s) ==
    Cardinality({i \in DOMAIN s :
        /\ s[i] \notin Whitespace
        /\ (i = 1 \/ s[i - 1] \in Whitespace)})

\* xs[:n]
Take(xs, n) == IF Len(xs) <= n THEN xs ELSE SubSeq(xs, 1, n)

(***************************************************************************)
(* Python values and JSON values.                                          *)
(***************************************************************************)
PyStr(s) == [t |-> "str", v |-> s]
PyList(xs) == [t |-> "list", v |-> xs]
PyDict(f) == [t |-> "dict", v |-> f]
PyBool(b) == [t |-> "bool", v |-> b]
PyInt(n) == [t |-> "int", v |-> n]
\* A float is kept as the fraction num/den in lowest terms.
PyFloat(num, den) == [t |-> "float", v |-> <<num, den>>]

\* bool(x) of Python for the values the code tests.
Truthy(x) ==
    CASE x.t = "str" -> x.v # <<>>
      [] x.t = "list" -> x.v # <<>>
      [] x.t = "dict" -> DOMAIN x.v # {}
      [] x.t = "bool" -> x.v
      [] x.t = "int" -> x.v # 0
      [] x.t = "float" -> x.v[1] # 0
      [] OTHER -> FALSE


NoneValue == [t |-> "none"]

\* m[k] raises unless m is a dict that has the key k.
HasKey(m, k) == m.t = "dict" /\ k \in DOMAIN m.v

\* json.dump: the JSON value written for a Python value.
RECURSIVE json_encode(_)
json_encode(x) ==
    CASE x.t = "dict" -> [t |-> "object", v |-> [k \in DOMAIN x.v |-> json_encode(x.v[k])]]
      [] x.t = "list" -> [t |-> "array", v |-> [i \in DOMAIN x.v |-> json_encode(x.v[i])]]
      [] x.t = "str" -> [t |-> "string", v |-> x.v]
      [] x.t = "bool" -> [t |-> IF x.v THEN "true" ELSE "false"]
      [] x.t = "int" -> [t |-> "number", v |-> <<x.v, 1>>, real |-> FALSE]
      [] x.t = "float" -> [t |-> "number", v |-> x.v, real |-> TRUE]
      [] OTHER -> [t |-> "null"]

\* json.load: the Python value read from a JSON value.
RECURSIVE json_decode(_)
\* A json.load that reads every number as a float; C6 tells it from json_decode.
json_decode_float(j) ==
    CASE j.t = "object" -> PyDict([k \in DOMAIN j.v |-> json_decode(j.v[k])])
      [] j.t = "array" -> PyList([i \in DOMAIN j.v |-> json_decode(j.v[i])])
      [] j.t = "string" -> PyStr(j.v)
      [] j.t = "true" -> PyBool(TRUE)
      [] j.t = "false" -> PyBool(FALSE)
      [] j.t = "number" -> PyFloat(j.v[1], j.v[2])
      [] OTHER -> NoneValue
json_decode(j) ==
    CASE j.t = "object" -> PyDict([k \in DOMAIN j.v |-> json_decode(j.v[k])])
      [] j.t = "array" -> PyList([i \in DOMAIN j.v |-> json_decode(j.v[i])])
      [] j.t = "string" -> PyStr(j.v)
      [] j.t = "true" -> PyBool(TRUE)
      [] j.t = "false" -> PyBool(FALSE)
      [] j.t = "number" -> IF j.real THEN PyFloat(j.v[1], j.v[2]) ELSE PyInt(j.v[1])
      [] OTHER -> NoneValue

(***************************************************************************)
(* The file system: the content of each file and the directories that      *)
(* exist.  A file is absent, holds a well-formed JSON text, holds text     *)
(* that is no JSON document (an empty or truncated file included), or      *)
(* holds bytes that are not UTF-8.                                         *)
(***************************************************************************)
Absent == [kind |-> "absent"]
Malformed == [kind |-> "malformed"]
BadUtf8 == [kind |-> "badutf8"]
JsonText(j) == [kind |-> "json", json |-> j]

\* Path resolution of the operating system: ".." goes to the parent, and
\* the parent of the root is the root.
RECURSIVE Resolve(_, _)
Resolve(base, rel) ==
    IF rel = <<>> THEN base
    ELSE IF Head(rel) = ".."
         THEN Resolve(IF base = <<>> THEN <<>> ELSE SubSeq(base, 1, Len(base) - 1), Tail(rel))
         ELSE Resolve(Append(base, Head(rel)), Tail(rel))

Dirname(path) == SubSeq(path, 1, Len(path) - 1)
Prefixes(path) == {SubSeq(path, 1, n) : n \in 0 .. Len(path)}

\* BaseAgent.memory_path and the path clear_memory removes.
memory_path == <<"..", "..", "memory", "memory_store.json">>
clear_memory_path == <<"memory", "memory_store.json">>

\* The working directories the server is started from: the file system
\* root, and the backend directory of a checkout.
WorkingDirs == {<<>>, <<"app", "backend">>}
Paths == {Resolve(c, r) : c \in WorkingDirs, r \in {memory_path, clear_memory_path}}

DefaultMemory ==
    PyDict([research_question |-> PyStr(<<>>),
            citations |-> PyList(<<>>),
            notes |-> PyList(<<>>),
            literature_reviews |-> PyList(<<>>),
            hypotheses |-> PyList(<<>>),
            drafts |-> PyList(<<>>),
            progress |-> PyDict([literature_review_completed |-> PyBool(FALSE),
                                 hypothesis_validated |-> PyBool(FALSE),
                                 draft_polished |-> PyBool(FALSE)])])

\* The outcome of a call: a returned value, or the exception raised.
Returned(x) == [raised |-> FALSE, value |-> x]
Raised(e) == [raised |-> TRUE, exc |-> e]

\* BaseAgent.load_memory on a file of the given content.
load_memory(file) ==
    CASE file.kind = "json" -> Returned(json_decode(file.json))
      [] file.kind \in {"absent", "malformed"} -> Returned(DefaultMemory)
      [] OTHER -> Raised("UnicodeDecodeError")

\* BaseAgent.save_memory is two steps on the file: open(path, 'w') leaves it
\* empty, json.dump and the close leave the document in it.
save_memory_open(file) == Malformed
save_memory_dump(memory) == JsonText(json_encode(memory))


(***************************************************************************)
(* Response extractors.                                                    *)
(***************************************************************************)
WordChars == Range(LowerLetters) \cup Range(UpperLetters) \cup Digits \cup {"_"}
DigitValue(c) == CHOOSE n \in 0 .. 9 : <<"0", "1", "2", "3", "4", "5", "6", "7", "8", "9">>[n + 1] = c

\* re.findall(r'\b([1-9]|10)\b', line): the match that starts at position i,
\* 0 when none does.  The alternative [1-9] is tried before 10.
\* A match of any digit 1-9, whatever stands next to it; C15 tells it from
\* NumberAt.
NumberAt_loose(line, i) ==
    IF line[i] \in (Digits \ {"0"}) THEN DigitValue(line[i]) ELSE 0
NumberAt(line, i) ==
    LET boundaryBefore == i = 1 \/ line[i - 1] \notin WordChars
        boundaryAfter(j) == j = Len(line) \/ line[j + 1] \notin WordChars
    IN  IF ~boundaryBefore THEN 0
        ELSE IF line[i] \in (Digits \ {"0"}) /\ boundaryAfter(i) THEN DigitValue(line[i])
        ELSE IF /\ line[i] = "1"
                /\ i < Len(line)
                /\ line[i + 1] = "0"
                /\ boundaryAfter(i + 1) THEN 10
        ELSE 0
\* numbers: the positions where a match starts; numbers[0] is the leftmost.
NumberPositions(line) == {i \in DOMAIN line : NumberAt(line, i) # 0}
FirstNumber(line) ==
    NumberAt(line, CHOOSE i \in NumberPositions(line) : \A j \in NumberPositions(line) : i <= j)

Criteria == {<<"C", "L", "A", "R", "I", "T", "Y">>, <<"T", "E", "S", "T", "A", "B", "I", "L", "I", "T", "Y">>, <<"S", "P", "E", "C", "I", "F", "I", "C", "I", "T", "Y">>, <<"R", "E", "L", "E", "V", "A", "N", "C", "E">>, <<"O", "R", "I", "G", "I", "N", "A", "L", "I", "T", "Y">>, <<"F", "E", "A", "S", "I", "B", "I", "L", "I", "T", "Y">>, <<"T", "H", "E", "O", "R", "E", "T", "I", "C", "A", "L">>}

RECURSIVE SumSeq(_)
SumSeq(xs) == IF xs = <<>> THEN 0 ELSE Head(xs) + SumSeq(Tail(xs))

RECURSIVE Gcd(_, _)
Gcd(a, b) == IF b = 0 THEN a ELSE Gcd(b, a % b)
\* The float a / b, for a >= 0 and b > 0.
Fraction(a, b) == PyFloat(a \div Gcd(a, b), b \div Gcd(a, b))

\* HypothesisValidatorAgent._calculate_overall_score
ScoredLine(line) ==
    /\ \E criterion \in Criteria : Contains(Upper(line), criterion)
    /\ NumberPositions(line) # {}
RECURSIVE CollectScores(_)
CollectScores(lines) ==
    IF lines = <<>> THEN <<>>
    ELSE (IF ScoredLine(Head(lines)) THEN <<FirstNumber(Head(lines))>> ELSE <<>>)
         \o CollectScores(Tail(lines))
calculate_overall_score(analysis) ==
    LET scores == CollectScores(SplitLines(analysis))
    IN  IF scores # <<>> THEN Fraction(SumSeq(scores), Len(scores)) ELSE PyFloat(5, 1)

\* HypothesisValidatorAgent._get_assessment_level
\* A level that takes a score of exactly 8 or exactly 6 for the level below;
\* C22 tells it from get_assessment_level.
get_assessment_level_strict(score) ==
    IF score.v[1] > 8 * score.v[2] THEN <<"S", "t", "r", "o", "n", "g">>
    ELSE IF score.v[1] > 6 * score.v[2] THEN <<"M", "o", "d", "e", "r", "a", "t", "e">>
    ELSE <<"W", "e", "a", "k">>
get_assessment_level(score) ==
    IF score.v[1] >= 8 * score.v[2] THEN <<"S", "t", "r", "o", "n", "g">>
    ELSE IF score.v[1] >= 6 * score.v[2] THEN <<"M", "o", "d", "e", "r", "a", "t", "e">>
    ELSE <<"W", "e", "a", "k">>

\* The list both recommendation generators parse out of their response.
RecommendationMarks == {<<"1", ".">>, <<"2", ".">>, <<"3", ".">>, <<"4", ".">>, <<"5", ".">>}
RECURSIVE StripAll(_)
StripAll(lines) == IF lines = <<>> THEN <<>> ELSE <<Strip(Head(lines))>> \o StripAll(Tail(lines))
RecommendationLine(line) ==
    /\ Strip(line) # <<>>
    /\ \E num \in RecommendationMarks : Contains(line, num)
parse_recommendations(response) ==
    Take(StripAll(SelectSeq(SplitLines(response), RecommendationLine)), 5)

\* The bullet test of _extract_improvements and _extract_suggestions.
\* The character U+2022 (bullet), which is one character of the str.
Bullet == "U+2022"
BulletChars == {"-", "*", Bullet}
ListMarks == {<<"1", ".">>, <<"2", ".">>, <<"3", ".">>}
IsListItem(line) ==
    \/ \E b \in BulletChars : StartsWith(Strip(line), <<b>>)
    \/ \E num \in ListMarks : Contains(Slice(line, 0, 3), num)

W_IMPROVEMENTS == <<"I", "M", "P", "R", "O", "V", "E", "M", "E", "N", "T", "S">>
W_CORRECTIONS == <<"C", "O", "R", "R", "E", "C", "T", "I", "O", "N", "S">>
W_POLISHED == <<"P", "O", "L", "I", "S", "H", "E", "D">>
W_SUGGESTIONS == <<"S", "U", "G", "G", "E", "S", "T", "I", "O", "N", "S">>
W_QUALITY == <<"Q", "U", "A", "L", "I", "T", "Y">>

\* DraftPolisherAgent._extract_improvements
RECURSIVE ImprovementsScan(_, _)
ImprovementsScan(lines, inSection) ==
    IF lines = <<>> THEN <<>>
    ELSE LET line == Head(lines) IN
         IF Contains(Upper(line), W_IMPROVEMENTS) \/ Contains(Upper(line), W_CORRECTIONS)
         THEN ImprovementsScan(Tail(lines), TRUE)
         ELSE IF /\ Strip(line) # <<>>
                 /\ \E w \in {W_POLISHED, W_SUGGESTIONS, W_QUALITY} : StartsWith(Strip(line), w)
         THEN ImprovementsScan(Tail(lines), FALSE)
         ELSE IF inSection /\ Strip(line) # <<>> /\ IsListItem(line)
         THEN <<Strip(line)>> \o ImprovementsScan(Tail(lines), inSection)
         ELSE ImprovementsScan(Tail(lines), inSection)
\* An extraction that returns every improvement it collected; C18 tells it
\* from extract_improvements.
extract_improvements_uncapped(response) == ImprovementsScan(SplitLines(response), FALSE)
extract_improvements(response) == Take(ImprovementsScan(SplitLines(response), FALSE), 10)

\* DraftPolisherAgent._extract_suggestions
RECURSIVE SuggestionsScan(_, _)
SuggestionsScan(lines, inSection) ==
    IF lines = <<>> THEN <<>>
    ELSE LET line == Head(lines) IN
         IF Contains(Upper(line), W_SUGGESTIONS)
         THEN SuggestionsScan(Tail(lines), TRUE)
         ELSE IF Strip(line) # <<>> /\ StartsWith(Strip(line), W_QUALITY)
         THEN SuggestionsScan(Tail(lines), FALSE)
         ELSE IF inSection /\ Strip(line) # <<>> /\ IsListItem(line)
         THEN <<Strip(line)>> \o SuggestionsScan(Tail(lines), inSection)
         ELSE SuggestionsScan(Tail(lines), inSection)
extract_suggestions(response) == Take(SuggestionsScan(SplitLines(response), FALSE), 5)

\* DraftPolisherAgent._assess_quality_score
\* A quality score that looks for 'good' and 'well' first; C16 tells it from
\* assess_quality_score.
assess_quality_score_reordered(original_text, polished_response) ==
    IF \/ Contains(Lower(polished_response), <<"g", "o", "o", "d">>)
       \/ Contains(Lower(polished_response), <<"w", "e", "l", "l">>)
    THEN PyFloat(15, 2)
    ELSE IF \/ Contains(Lower(polished_response), <<"e", "x", "c", "e", "l", "l", "e", "n", "t">>)
            \/ Contains(Lower(polished_response), <<"h", "i", "g", "h", " ", "q", "u", "a", "l", "i", "t", "y">>)
    THEN PyFloat(9, 1)
    ELSE IF Contains(Lower(polished_response), <<"i", "m", "p", "r", "o", "v", "e", "m", "e", "n", "t">>)
    THEN PyFloat(6, 1)
    ELSE PyFloat(7, 1)
assess_quality_score(original_text, polished_response) ==
    IF \/ Contains(Lower(polished_response), <<"e", "x", "c", "e", "l", "l", "e", "n", "t">>)
       \/ Contains(Lower(polished_response), <<"h", "i", "g", "h", " ", "q", "u", "a", "l", "i", "t", "y">>)
    THEN PyFloat(9, 1)
    ELSE IF \/ Contains(Lower(polished_response), <<"g", "o", "o", "d">>)
            \/ Contains(Lower(polished_response), <<"w", "e", "l", "l">>)
    THEN PyFloat(15, 2)
    ELSE IF Contains(Lower(polished_response), <<"i", "m", "p", "r", "o", "v", "e", "m", "e", "n", "t">>)
    THEN PyFloat(6, 1)
    ELSE PyFloat(7, 1)

\* DraftPolisherAgent._extract_polished_text
TextMarkers == {<<"P", "O", "L", "I", "S", "H", "E", "D", " ", "T", "E", "X", "T">>, <<"C", "O", "R", "R", "E", "C", "T", "E", "D", " ", "T", "E", "X", "T">>, <<"R", "E", "S", "T", "R", "U", "C", "T", "U", "R", "E", "D", " ", "T", "E", "X", "T">>, <<"C", "L", "A", "R", "I", "F", "I", "E", "D", " ", "T", "E", "X", "T">>, <<"I", "M", "P", "R", "O", "V", "E", "D", " ", "T", "E", "X", "T">>}
EndMarkers == {W_IMPROVEMENTS, W_CORRECTIONS, W_SUGGESTIONS, W_QUALITY}
RECURSIVE PolishedScan(_, _)
PolishedScan(lines, inSection) ==
    IF lines = <<>> THEN <<>>
    ELSE LET line == Head(lines) IN
         IF \E marker \in TextMarkers : Contains(Upper(line), marker)
         THEN PolishedScan(Tail(lines), TRUE)
         ELSE IF Strip(line) # <<>> /\ \E marker \in EndMarkers : Contains(Upper(line), marker)
         THEN PolishedScan(Tail(lines), FALSE)
         ELSE IF inSection /\ Strip(line) # <<>>
         THEN <<line>> \o PolishedScan(Tail(lines), inSection)
         ELSE PolishedScan(Tail(lines), inSection)
\* An extraction whose fallback is the original text without its surrounding
\* whitespace; C17 tells it from extract_polished_text.
extract_polished_text_stripped(response, original_text) ==
    LET polished_text == Strip(JoinLines(PolishedScan(SplitLines(response), FALSE)))
    IN  IF polished_text # <<>> THEN polished_text ELSE Strip(original_text)
extract_polished_text(response, original_text) ==
    LET polished_text == Strip(JoinLines(PolishedScan(SplitLines(response), FALSE)))
    IN  IF polished_text # <<>> THEN polished_text ELSE original_text


\* HypothesisValidatorAgent.generate_alternative_hypotheses: the parse of
\* the response into alternatives.
W_Hypothesis == <<"H", "y", "p", "o", "t", "h", "e", "s", "i", "s">>
StartsAlternative(line) ==
    /\ Strip(line) # <<>>
    /\ \/ Contains(line, W_Hypothesis)
       \/ \E num \in ListMarks : StartsWith(line, num)
RECURSIVE AlternativesScan(_, _)
AlternativesScan(lines, current_hypothesis) ==
    IF lines = <<>>
    THEN IF current_hypothesis # <<>> THEN <<Strip(current_hypothesis)>> ELSE <<>>
    ELSE LET line == Head(lines) IN
         IF StartsAlternative(line)
         THEN (IF current_hypothesis # <<>> THEN <<Strip(current_hypothesis)>> ELSE <<>>)
              \o AlternativesScan(Tail(lines), line)
         ELSE IF Strip(line) # <<>> /\ current_hypothesis # <<>>
         THEN AlternativesScan(Tail(lines), current_hypothesis \o <<" ">> \o line)
         ELSE AlternativesScan(Tail(lines), current_hypothesis)
parse_alternatives(response) == Take(AlternativesScan(SplitLines(response), <<>>), 3)

(***************************************************************************)
(* Inputs of the requests and outcomes of the generation service.          *)
(***************************************************************************)
Str(s) == PyStr(s)
EmptyStr == PyStr(<<>>)
StrList(xs) == PyList([i \in DOMAIN xs |-> PyStr(xs[i])])

LiteratureInputs ==
    {[research_question |-> Str(<<"Q">>), citations |-> StrList(<< <<"A">>, <<"B">> >>),
      notes |-> StrList(<< <<"n">> >>)],
     [research_question |-> EmptyStr, citations |-> StrList(<< <<"A">> >>),
      notes |-> StrList(<<>>)],
     [research_question |-> EmptyStr, citations |-> StrList(<<>>),
      notes |-> StrList(<<>>)]}
HypothesisInputs ==
    {[hypothesis |-> Str(<<"H">>), research_question |-> EmptyStr],
     [hypothesis |-> Str(<<"H">>), research_question |-> Str(<<"R">>)]}
DraftInputs ==
    {[draft_text |-> Str(<<"d", " ", "e">>), polish_type |-> Str(<<"g", "r", "a", "m", "m", "a", "r">>),
      target_audience |-> Str(<<"a", "c", "a", "d", "e", "m", "i", "c">>)]}

AlternativesInputs == {[research_question |-> Str(<<"Q">>), context |-> EmptyStr]}
SourceAnalysisInputs == {[citations |-> StrList(<< <<"A">> >>)]}
ComparisonInputs == {[version1 |-> Str(<<"d", " ", "e">>), version2 |-> Str(<<"d">>)]}

\* What model.generate_content does: it returns a text or it raises.
ResponseText == <<"P", "O", "L", "I", "S", "H", "E", "D", " ", "T", "E", "X", "T", "\n", "A", " ", "b", " ", "c", "\n", "I", "M", "P", "R", "O", "V", "E", "M", "E", "N", "T", "S", "\n", "-", " ", "g", "o", "o", "d", "\n", "C", "L", "A", "R", "I", "T", "Y", ":", " ", "8", "\n", "1", ".", " ", "x">>
ErrorDetail == <<"b", "o", "o", "m">>
GatewayOutcomes == {[ok |-> TRUE, text |-> ResponseText], [ok |-> FALSE, error |-> ErrorDetail]}

\* BaseAgent.generate_response
ErrorPrefix == <<"E", "r", "r", "o", "r", " ", "g", "e", "n", "e", "r", "a", "t", "i", "n", "g", " ", "r", "e", "s", "p", "o", "n", "s", "e", ":", " ">>
\* A gateway that answers a failure with the empty text; C10 tells it from
\* generate_response.
generate_response_blank(outcome) ==
    IF outcome.ok THEN outcome.text ELSE <<>>
generate_response(outcome) ==
    IF outcome.ok THEN outcome.text ELSE ErrorPrefix \o outcome.error

\* datetime.datetime.now().isoformat() at clock reading n: its decimal digits.
RECURSIVE Decimal(_)
Decimal(n) ==
    IF n < 10 THEN <<<<"0", "1", "2", "3", "4", "5", "6", "7", "8", "9">>[n + 1]>>
    ELSE Decimal(n \div 10) \o Decimal(n % 10)
isoformat(n) == PyStr(<<"T">> \o Decimal(n))

(***************************************************************************)
(* Operations on Python dicts and lists.                                   *)
(***************************************************************************)
Item(m, k) == m.v[k]
SetItem(m, k, x) == PyDict([kk \in DOMAIN m.v \cup {k} |-> IF kk = k THEN x ELSE m.v[kk]])
\* An extend that puts the new elements first; C7 tells it from ListExtend.
ListExtend_front(l, xs) == PyList(xs.v \o l.v)
ListExtend(l, xs) == PyList(l.v \o xs.v)
ListAppend(l, x) == PyList(Append(l.v, x))
\* m.get(k, default)
GetOr(m, k, default) == IF k \in DOMAIN m.v THEN m.v[k] ELSE default


(***************************************************************************)
(* The state.                                                              *)
(***************************************************************************)
\* The server processes that share the store (the workers of one uvicorn, or
\* servers started side by side).  Each handles one request at a time: the
\* handlers are coroutines that call the agents without awaiting.
Procs == {"w1", "w2"}

VARIABLES
    cwd,        \* the working directory of the server
    fs,         \* the content of each file
    dirs,       \* the directories that exist
    clock,      \* the readings of datetime.now() so far
    ops,        \* the requests received so far
    pc,         \* where each worker is in its handler
    op,         \* the operation each worker is handling
    input,      \* the input of that operation
    memory,     \* the handler's local variable memory
    local,      \* the handler's other local variables
    result,     \* the response of the last request each worker handled
    \* History variables, which no action reads to decide what the code does.
    calls,      \* the calls of model.generate_content each worker made for its request
    before,     \* the backing file when the worker's request was received
    seen,       \* the backing file as the request's load_memory found it
    loaded,     \* the outcome of the request's load_memory
    torn,       \* the save that was in progress when the request loaded
    save_old,   \* the backing file when the request opened it for writing
    failed,     \* whether the request's primary gateway call failed
    overlap,    \* the workers whose load-save cycle overlapped the request's
    completed,  \* the tasks completed since the start or the last clear
    after_clear,\* a clear has reported success and no save has begun since
    run         \* the literature reviews with citations received in a row

vars == <<cwd, fs, dirs, clock, ops, pc, op, input, memory, local, result, calls,
          before, seen, loaded, torn, save_old, failed, overlap, completed, after_clear, run>>

\* The file the agents load and save, and the file clear_memory removes.
AgentFile == Resolve(cwd, memory_path)
ClearFile == Resolve(cwd, clear_memory_path)

\* A session document that earlier requests have left in the store.
StoredEntry ==
    PyDict([timestamp |-> isoformat(0),
            review |-> Str(<<"r">>),
            sources_analyzed |-> PyInt(1)])
StoredMemory ==
    PyDict([research_question |-> Str(<<"P">>),
            citations |-> StrList(<< <<"Z">> >>),
            notes |-> StrList(<<>>),
            literature_reviews |-> PyList(<<StoredEntry>>),
            hypotheses |-> PyList(<<>>),
            drafts |-> PyList(<<>>),
            progress |-> PyDict([literature_review_completed |-> PyBool(TRUE),
                                 hypothesis_validated |-> PyBool(FALSE),
                                 draft_polished |-> PyBool(FALSE)])])
InitialContents == {Absent, Malformed, BadUtf8, save_memory_dump(StoredMemory)}

\* What a load of the backing file would return now (the default document
\* when it would raise).
View(file) == IF load_memory(file).raised THEN DefaultMemory ELSE load_memory(file).value
Persisted == View(fs[AgentFile])

NoTorn == [during |-> FALSE]
NoRun == [n |-> 0, base |-> <<>>, added |-> <<>>]

Init ==
    /\ cwd \in WorkingDirs
    /\ \E content \in InitialContents :
        /\ fs = [path \in Paths |-> IF path = Resolve(cwd, memory_path) THEN content ELSE Absent]
        /\ dirs = IF content = Absent THEN {<<>>}
                  ELSE Prefixes(Dirname(Resolve(cwd, memory_path)))
    /\ clock = 1
    /\ ops = 0
    /\ pc = [p \in Procs |-> "idle"]
    /\ op = [p \in Procs |-> "none"]
    /\ input = [p \in Procs |-> NoneValue]
    /\ memory = [p \in Procs |-> NoneValue]
    /\ local = [p \in Procs |-> NoneValue]
    /\ result = [p \in Procs |-> NoneValue]
    /\ calls = [p \in Procs |-> 0]
    /\ before = [p \in Procs |-> Absent]
    /\ seen = [p \in Procs |-> Absent]
    /\ loaded = [p \in Procs |-> NoneValue]
    /\ torn = [p \in Procs |-> NoTorn]
    /\ save_old = [p \in Procs |-> Absent]
    /\ failed = [p \in Procs |-> FALSE]
    /\ overlap = [p \in Procs |-> {}]
    /\ completed = {}
    /\ after_clear = FALSE
    /\ run = NoRun

AllIdle == \A p \in Procs : pc[p] = "idle"

\* The response of a handler: the body it returns, or the HTTPException
\* its except clause raises.
Ok(body) == [status |-> 200, body |-> body]
HttpError(status, prefix, exc) == [status |-> status, detail |-> <<prefix, exc>>]


(***************************************************************************)
(* What the three process methods compute between their calls.             *)
(***************************************************************************)
\* A flag update that starts from a fresh progress record; C4 tells it from
\* SetProgress.
SetProgress_fresh(m, flag) ==
    SetItem(m, "progress", SetItem(Item(DefaultMemory, "progress"), flag, PyBool(TRUE)))
SetProgress(m, flag) == SetItem(m, "progress", SetItem(Item(m, "progress"), flag, PyBool(TRUE)))
\* An append that keeps only the new entry; C3 tells it from AppendEntry.
AppendEntry_only(m, key, entry) == SetItem(m, key, PyList(<<entry>>))
AppendEntry(m, key, entry) == SetItem(m, key, ListAppend(Item(m, key), entry))

\* memory[k] of a key the loaded document does not have raises KeyError:
\* whether one of the keys a statement subscripts is missing.
KeyError(m, keys) == \E k \in keys : ~HasKey(m, k)

\* LiteratureReviewAgent.process: the input folded into the loaded memory.
\* A fold that replaces the stored citations by the supplied ones; C29 tells
\* it from literature_fold.
literature_fold_replace(m, inp) ==
    LET m1 == IF Truthy(inp.research_question)
              THEN SetItem(m, "research_question", inp.research_question) ELSE m
        m2 == IF Truthy(inp.citations) THEN SetItem(m1, "citations", inp.citations) ELSE m1
    IN  IF Truthy(inp.notes)
        THEN SetItem(m2, "notes", ListExtend(Item(m2, "notes"), inp.notes))
        ELSE m2
literature_fold(m, inp) ==
    LET m1 == IF Truthy(inp.research_question)
              THEN SetItem(m, "research_question", inp.research_question) ELSE m
        m2 == IF Truthy(inp.citations)
              THEN SetItem(m1, "citations", ListExtend(Item(m1, "citations"), inp.citations))
              ELSE m1
    IN  IF Truthy(inp.notes)
        THEN SetItem(m2, "notes", ListExtend(Item(m2, "notes"), inp.notes))
        ELSE m2

\* A literature_store whose entry counts the notes; C8 tells it from
\* literature_store.
literature_store_notes(m, inp, review, now) ==
    LET review_entry == PyDict([timestamp |-> isoformat(now),
                                review |-> Str(review),
                                sources_analyzed |-> PyInt(Len(inp.notes.v))])
    IN  SetProgress(AppendEntry(m, "literature_reviews", review_entry),
                    "literature_review_completed")

\* LiteratureReviewAgent.process: the review stored in memory.
literature_store(m, inp, review, now) ==
    LET review_entry == PyDict([timestamp |-> isoformat(now),
                                review |-> Str(review),
                                sources_analyzed |-> PyInt(Len(inp.citations.v))])
    IN  SetProgress(AppendEntry(m, "literature_reviews", review_entry),
                    "literature_review_completed")

\* HypothesisValidatorAgent.process: the research question it works with.
hypothesis_question(m, inp) ==
    IF ~Truthy(inp.research_question)
    THEN GetOr(m, "research_question", EmptyStr)
    ELSE inp.research_question

\* HypothesisValidatorAgent._validate_hypothesis, given the gateway's response.
validate_hypothesis(response, now) ==
    PyDict([detailed_analysis |-> Str(response),
            overall_score |-> calculate_overall_score(response),
            assessment |-> Str(get_assessment_level(calculate_overall_score(response))),
            timestamp |-> isoformat(now)])

\* A store that appends the validation and leaves the progress flag as it
\* was; C28 tells it from hypothesis_store.
hypothesis_store_unflagged(m, inp, research_question, validation_result, now) ==
    LET validation_entry == PyDict([timestamp |-> isoformat(now),
                                    hypothesis |-> inp.hypothesis,
                                    validation |-> validation_result,
                                    research_question |-> research_question])
    IN  AppendEntry(m, "hypotheses", validation_entry)

\* A store that also keeps the research question as the session's; C30 tells
\* it from hypothesis_store.
hypothesis_store_question(m, inp, research_question, validation_result, now) ==
    LET validation_entry == PyDict([timestamp |-> isoformat(now),
                                    hypothesis |-> inp.hypothesis,
                                    validation |-> validation_result,
                                    research_question |-> research_question])
    IN  SetItem(SetProgress(AppendEntry(m, "hypotheses", validation_entry), "hypothesis_validated"),
                "research_question", research_question)

\* HypothesisValidatorAgent.process: the validation stored in memory.
hypothesis_store(m, inp, research_question, validation_result, now) ==
    LET validation_entry == PyDict([timestamp |-> isoformat(now),
                                    hypothesis |-> inp.hypothesis,
                                    validation |-> validation_result,
                                    research_question |-> research_question])
    IN  SetProgress(AppendEntry(m, "hypotheses", validation_entry), "hypothesis_validated")

\* DraftPolisherAgent._polish_draft, given the gateway's response.
polish_draft(inp, response) ==
    [polished_text |-> Str(extract_polished_text(response, inp.draft_text.v)),
     improvements |-> StrList(extract_improvements(response)),
     suggestions |-> StrList(extract_suggestions(response)),
     quality_score |-> assess_quality_score(inp.draft_text.v, response)]

\* DraftPolisherAgent.process: the draft stored in memory.
draft_store(m, inp, polished_result, now) ==
    LET draft_entry == PyDict([timestamp |-> isoformat(now),
                               original_draft |-> inp.draft_text,
                               polished_draft |-> polished_result.polished_text,
                               polish_type |-> inp.polish_type,
                               improvements_made |-> polished_result.improvements,
                               word_count_original |-> PyInt(WordCount(inp.draft_text.v)),
                               word_count_polished |->
                                   PyInt(WordCount(polished_result.polished_text.v))])
    IN  SetProgress(AppendEntry(m, "drafts", draft_entry), "draft_polished")

S_success == <<"s", "u", "c", "c", "e", "s", "s">>
LiteratureAgentName == <<"L", "i", "t", "e", "r", "a", "t", "u", "r", "e", " ", "R", "e", "v", "i", "e", "w", " ", "A", "g", "e", "n", "t">>
HypothesisAgentName == <<"H", "y", "p", "o", "t", "h", "e", "s", "i", "s", " ", "V", "a", "l", "i", "d", "a", "t", "o", "r", " ", "A", "g", "e", "n", "t">>
DraftAgentName == <<"D", "r", "a", "f", "t", " ", "P", "o", "l", "i", "s", "h", "e", "r", " ", "A", "g", "e", "n", "t">>


(***************************************************************************)
(* Requests.  A handler of main.py calls the agent's process method, which *)
(* runs in steps: load_memory, the gateway call, the two steps of          *)
(* save_memory, and the return (after a second gateway call for the        *)
(* recommendations).  Workers interleave between the steps.                *)
(***************************************************************************)
\* A worker is inside its load-save cycle: it has loaded and not yet saved.
InCycle(q) == pc[q] \in {"generate", "save_open", "save_dump"}

\* What the history variables record of a request that is received.
ObserveReceive(p) ==
    /\ before' = [before EXCEPT ![p] = fs[AgentFile]]
    /\ seen' = [seen EXCEPT ![p] = Absent]
    /\ loaded' = [loaded EXCEPT ![p] = NoneValue]
    /\ torn' = [torn EXCEPT ![p] = NoTorn]
    /\ save_old' = [save_old EXCEPT ![p] = Absent]
    /\ failed' = [failed EXCEPT ![p] = FALSE]
    /\ overlap' = [q \in Procs |-> IF q = p THEN {} ELSE overlap[q] \ {p}]

Receive(p, name, inp) ==
    /\ pc[p] = "idle"
    /\ ops < MaxOps
    /\ ops' = ops + 1
    /\ pc' = [pc EXCEPT ![p] = "load"]
    /\ op' = [op EXCEPT ![p] = name]
    /\ input' = [input EXCEPT ![p] = inp]
    /\ memory' = [memory EXCEPT ![p] = NoneValue]
    /\ local' = [local EXCEPT ![p] = NoneValue]
    /\ result' = [result EXCEPT ![p] = NoneValue]
    /\ ObserveReceive(p)
    /\ run' = IF name = "literature" /\ Truthy(inp.citations) THEN run ELSE NoRun
    /\ calls' = [calls EXCEPT ![p] = 0]
    /\ UNCHANGED <<cwd, fs, dirs, clock, completed, after_clear>>

\* A handler that answers with a success body whatever was raised; C11 tells
\* it from Abort.
Abort_ok(p, prefix, exc) ==
    /\ pc' = [pc EXCEPT ![p] = "idle"]
    /\ result' = [result EXCEPT ![p] = Ok(PyDict([status |-> Str(S_success)]))]
    /\ run' = NoRun
    /\ UNCHANGED <<memory, local>>

\* The handler's except clause: the request fails with status 500.
Abort(p, prefix, exc) ==
    /\ pc' = [pc EXCEPT ![p] = "idle"]
    /\ result' = [result EXCEPT ![p] = HttpError(500, prefix, exc)]
    /\ run' = NoRun
    /\ UNCHANGED <<memory, local>>

\* What the history variables record of a load.
ObserveLoad(p, r) ==
    /\ seen' = [seen EXCEPT ![p] = fs[AgentFile]]
    /\ loaded' = [loaded EXCEPT ![p] = r]
    /\ torn' = [torn EXCEPT ![p] =
            IF \E q \in Procs \ {p} : pc[q] = "save_dump"
            THEN LET q == CHOOSE w \in Procs \ {p} : pc[w] = "save_dump"
                 IN  [during |-> TRUE, old |-> View(save_old[q]), new |-> memory[q]]
            ELSE NoTorn]
    /\ overlap' = [q \in Procs |->
            IF q = p THEN {w \in Procs \ {p} : InCycle(w)}
            ELSE IF InCycle(q) THEN overlap[q] \cup {p} ELSE overlap[q]]

(* POST /literature-review *)
conduct_literature_review(p) ==
    \E inp \in LiteratureInputs : Receive(p, "literature", inp)

LiteratureLoad(p) ==
    /\ pc[p] = "load" /\ op[p] = "literature"
    /\ LET r == load_memory(fs[AgentFile]) IN
        /\ ObserveLoad(p, r)
        /\ IF r.raised
           THEN Abort(p, "Literature review error", r.exc)
           ELSE IF KeyError(r.value, {k \in {"citations", "notes"} : Truthy(input[p][k])})
           THEN Abort(p, "Literature review error", "KeyError")
           ELSE /\ memory' = [memory EXCEPT ![p] = literature_fold(r.value, input[p])]
                /\ pc' = [pc EXCEPT ![p] = "generate"]
                /\ UNCHANGED <<local, result, run>>
    /\ UNCHANGED <<calls, cwd, fs, dirs, clock, ops, op, input, before, save_old, failed,
                   completed, after_clear>>

\* A review step that calls the gateway once more when the call failed; C24
\* tells it from LiteratureGenerate.
LiteratureGenerate_retry(p) ==
    /\ pc[p] = "generate" /\ op[p] = "literature"
    /\ \E outcome \in GatewayOutcomes :
        LET review == generate_response(outcome)
            again == ~outcome.ok /\ calls[p] = 0
        IN
        /\ local' = [local EXCEPT ![p] = IF again THEN @ ELSE [review |-> Str(review)]]
        /\ memory' = [memory EXCEPT ![p] =
                IF again THEN @ ELSE literature_store(memory[p], input[p], review, clock)]
        /\ failed' = [failed EXCEPT ![p] = ~outcome.ok]
        /\ clock' = IF again THEN clock ELSE clock + 1
        /\ pc' = [pc EXCEPT ![p] = IF again THEN "generate" ELSE "save_open"]
    /\ calls' = [calls EXCEPT ![p] = @ + 1]
    /\ UNCHANGED <<cwd, fs, dirs, ops, op, input, result, before, seen, loaded, torn, save_old,
                   overlap, completed, after_clear, run>>

LiteratureGenerate(p) ==
    /\ pc[p] = "generate" /\ op[p] = "literature"
    /\ \E outcome \in GatewayOutcomes :
        LET review == generate_response(outcome) IN
        /\ failed' = [failed EXCEPT ![p] = ~outcome.ok]
        /\ IF KeyError(memory[p], {"literature_reviews", "progress"})
           THEN Abort(p, "Literature review error", "KeyError")
           ELSE /\ local' = [local EXCEPT ![p] = [review |-> Str(review)]]
                /\ memory' = [memory EXCEPT ![p] =
                        literature_store(memory[p], input[p], review, clock)]
                /\ pc' = [pc EXCEPT ![p] = "save_open"]
                /\ UNCHANGED <<result, run>>
    /\ clock' = clock + 1
    /\ calls' = [calls EXCEPT ![p] = @ + 1]
    /\ UNCHANGED <<cwd, fs, dirs, ops, op, input, before, seen, loaded, torn, save_old,
                   overlap, completed, after_clear>>

\* save_memory, first step: os.makedirs and open(path, 'w').
SaveOpen(p) ==
    /\ pc[p] = "save_open"
    /\ dirs' = dirs \cup Prefixes(Dirname(AgentFile))
    /\ fs' = [fs EXCEPT ![AgentFile] = save_memory_open(@)]
    /\ save_old' = [save_old EXCEPT ![p] = fs[AgentFile]]
    /\ after_clear' = FALSE
    /\ pc' = [pc EXCEPT ![p] = "save_dump"]
    /\ UNCHANGED <<calls, cwd, clock, ops, op, input, memory, local, result, before, seen, loaded, torn,
                   failed, overlap, completed, run>>

\* save_memory, second step: json.dump and the close of the file.
SaveDump(p) ==
    /\ pc[p] = "save_dump"
    /\ fs' = [fs EXCEPT ![AgentFile] = save_memory_dump(memory[p])]
    /\ pc' = [pc EXCEPT ![p] = "return"]
    /\ UNCHANGED <<calls, cwd, dirs, clock, ops, op, input, memory, local, result, before, seen, loaded,
                   torn, save_old, failed, overlap, completed, after_clear, run>>

\* The detail prefix of each task handler's except clause.
HandlerPrefix(name) ==
    CASE name = "literature" -> "Literature review error"
      [] name = "hypothesis" -> "Hypothesis validation error"
      [] name = "draft" -> "Draft polishing error"

\* save_memory raises: os.makedirs or open(path, 'w') fails because the path
\* cannot be written.  Nothing is written, and the exception reaches the
\* handler's except clause.
SaveFail(p) ==
    /\ pc[p] = "save_open"
    /\ Abort(p, HandlerPrefix(op[p]), "PermissionError")
    /\ UNCHANGED <<calls, cwd, fs, dirs, clock, ops, op, input, before, seen, loaded, torn, save_old,
                   failed, overlap, completed, after_clear>>

\* save_memory raises after open(path, 'w'): json.dump or the close of the
\* file fails (the disk is full, say).  The with statement closes the file,
\* which keeps what was written of the text, and the exception reaches the
\* handler's except clause.
SaveDumpFail(p) ==
    /\ pc[p] = "save_dump"
    /\ Abort(p, HandlerPrefix(op[p]), "OSError")
    /\ UNCHANGED <<calls, cwd, fs, dirs, clock, ops, op, input, before, seen, loaded, torn,
                   save_old, failed, overlap, completed, after_clear>>

\* What the history variables record of a task that returns.
ObserveReturn(p) ==
    /\ completed' = completed \cup {op[p]}
    /\ run' = IF op[p] = "literature" /\ Truthy(input[p].citations)
              THEN [n |-> run.n + 1,
                    base |-> IF run.n = 0 THEN Item(View(before[p]), "citations").v
                             ELSE run.base,
                    added |-> run.added \o input[p].citations.v]
              ELSE NoRun

LiteratureReturn(p) ==
    /\ pc[p] = "return" /\ op[p] = "literature"
    /\ \E outcome \in GatewayOutcomes :
        result' = [result EXCEPT ![p] = Ok(PyDict(
            [status |-> Str(S_success),
             agent |-> Str(LiteratureAgentName),
             review |-> local[p].review,
             sources_analyzed |-> PyInt(Len(input[p].citations.v)),
             recommendations |->
                 StrList(parse_recommendations(generate_response(outcome)))]))]
    /\ ObserveReturn(p)
    /\ pc' = [pc EXCEPT ![p] = "idle"]
    /\ calls' = [calls EXCEPT ![p] = @ + 1]
    /\ UNCHANGED <<cwd, fs, dirs, clock, ops, op, input, memory, local, before, seen, loaded,
                   torn, save_old, failed, overlap, after_clear>>


(* POST /validate-hypothesis *)
validate_hypothesis_request(p) ==
    \E inp \in HypothesisInputs : Receive(p, "hypothesis", inp)

HypothesisLoad(p) ==
    /\ pc[p] = "load" /\ op[p] = "hypothesis"
    /\ LET r == load_memory(fs[AgentFile]) IN
        /\ ObserveLoad(p, r)
        /\ IF r.raised
           THEN Abort(p, "Hypothesis validation error", r.exc)
           ELSE /\ memory' = [memory EXCEPT ![p] = r.value]
                /\ local' = [local EXCEPT ![p] =
                        [research_question |-> hypothesis_question(r.value, input[p])]]
                /\ pc' = [pc EXCEPT ![p] = "generate"]
                /\ UNCHANGED <<result, run>>
    /\ UNCHANGED <<calls, cwd, fs, dirs, clock, ops, op, input, before, save_old, failed,
                   completed, after_clear>>

HypothesisGenerate(p) ==
    /\ pc[p] = "generate" /\ op[p] = "hypothesis"
    /\ \E outcome \in GatewayOutcomes :
        LET validation_result == validate_hypothesis(generate_response(outcome), clock) IN
        /\ failed' = [failed EXCEPT ![p] = ~outcome.ok]
        /\ IF KeyError(memory[p], {"hypotheses", "progress"})
           THEN Abort(p, "Hypothesis validation error", "KeyError")
           ELSE /\ local' = [local EXCEPT ![p] =
                        [research_question |-> local[p].research_question,
                         validation_result |-> validation_result]]
                /\ memory' = [memory EXCEPT ![p] =
                        hypothesis_store(memory[p], input[p], local[p].research_question,
                                         validation_result, clock + 1)]
                /\ pc' = [pc EXCEPT ![p] = "save_open"]
                /\ UNCHANGED <<result, run>>
    /\ clock' = clock + 2
    /\ calls' = [calls EXCEPT ![p] = @ + 1]
    /\ UNCHANGED <<cwd, fs, dirs, ops, op, input, before, seen, loaded, torn, save_old,
                   overlap, completed, after_clear>>

HypothesisReturn(p) ==
    /\ pc[p] = "return" /\ op[p] = "hypothesis"
    /\ \E outcome \in GatewayOutcomes :
        result' = [result EXCEPT ![p] = Ok(PyDict(
            [status |-> Str(S_success),
             agent |-> Str(HypothesisAgentName),
             hypothesis |-> input[p].hypothesis,
             validation |-> local[p].validation_result,
             recommendations |->
                 StrList(parse_recommendations(generate_response(outcome)))]))]
    /\ ObserveReturn(p)
    /\ pc' = [pc EXCEPT ![p] = "idle"]
    /\ calls' = [calls EXCEPT ![p] = @ + 1]
    /\ UNCHANGED <<cwd, fs, dirs, clock, ops, op, input, memory, local, before, seen, loaded,
                   torn, save_old, failed, overlap, after_clear>>

(* POST /polish-draft *)
polish_draft_request(p) ==
    \E inp \in DraftInputs : Receive(p, "draft", inp)

DraftLoad(p) ==
    /\ pc[p] = "load" /\ op[p] = "draft"
    /\ LET r == load_memory(fs[AgentFile]) IN
        /\ ObserveLoad(p, r)
        /\ IF r.raised
           THEN Abort(p, "Draft polishing error", r.exc)
           ELSE /\ memory' = [memory EXCEPT ![p] = r.value]
                /\ pc' = [pc EXCEPT ![p] = "generate"]
                /\ UNCHANGED <<local, result, run>>
    /\ UNCHANGED <<calls, cwd, fs, dirs, clock, ops, op, input, before, save_old, failed,
                   completed, after_clear>>

DraftGenerate(p) ==
    /\ pc[p] = "generate" /\ op[p] = "draft"
    /\ \E outcome \in GatewayOutcomes :
        LET polished_result == polish_draft(input[p], generate_response(outcome)) IN
        /\ failed' = [failed EXCEPT ![p] = ~outcome.ok]
        /\ IF KeyError(memory[p], {"drafts", "progress"})
           THEN Abort(p, "Draft polishing error", "KeyError")
           ELSE /\ local' = [local EXCEPT ![p] = [polished_result |-> polished_result]]
                /\ memory' = [memory EXCEPT ![p] =
                        draft_store(memory[p], input[p], polished_result, clock)]
                /\ pc' = [pc EXCEPT ![p] = "save_open"]
                /\ UNCHANGED <<result, run>>
    /\ clock' = clock + 1
    /\ calls' = [calls EXCEPT ![p] = @ + 1]
    /\ UNCHANGED <<cwd, fs, dirs, ops, op, input, before, seen, loaded, torn, save_old,
                   overlap, completed, after_clear>>

DraftReturn(p) ==
    /\ pc[p] = "return" /\ op[p] = "draft"
    /\ result' = [result EXCEPT ![p] = Ok(PyDict(
            [status |-> Str(S_success),
             agent |-> Str(DraftAgentName),
             original_text |-> input[p].draft_text,
             polished_text |-> local[p].polished_result.polished_text,
             improvements |-> local[p].polished_result.improvements,
             quality_score |-> local[p].polished_result.quality_score,
             suggestions |-> local[p].polished_result.suggestions]))]
    /\ ObserveReturn(p)
    /\ pc' = [pc EXCEPT ![p] = "idle"]
    /\ UNCHANGED <<calls, cwd, fs, dirs, clock, ops, op, input, memory, local, before, seen, loaded,
                   torn, save_old, failed, overlap, after_clear>>

(* DELETE /memory *)
S_cleared == <<"M", "e", "m", "o", "r", "y", " ", "c", "l", "e", "a", "r", "e", "d", " ", "s", "u", "c", "c", "e", "s", "s", "f", "u", "l", "l", "y">>
clear_memory(p) ==
    /\ pc[p] = "idle"
    /\ ops < MaxOps
    /\ ops' = ops + 1
    /\ fs' = IF fs[ClearFile].kind # "absent" THEN [fs EXCEPT ![ClearFile] = Absent] ELSE fs
    /\ op' = [op EXCEPT ![p] = "clear"]
    /\ input' = [input EXCEPT ![p] = NoneValue]
    /\ memory' = [memory EXCEPT ![p] = NoneValue]
    /\ local' = [local EXCEPT ![p] = NoneValue]
    /\ result' = [result EXCEPT ![p] =
            Ok(PyDict([status |-> Str(S_success), message |-> Str(S_cleared)]))]
    /\ ObserveReceive(p)
    /\ completed' = {}
    /\ after_clear' = TRUE
    /\ run' = NoRun
    /\ calls' = [calls EXCEPT ![p] = 0]
    /\ UNCHANGED <<cwd, dirs, clock, pc>>

\* BaseAgent(): the class declares process abstract, and a class with an
\* abstract method cannot be instantiated.
AbstractMethods == {"process"}
BaseAgent_new == IF AbstractMethods = {} THEN Returned("BaseAgent") ELSE Raised("TypeError")

\* GET /memory: the body of the response
get_memory_body(m) == PyDict([status |-> Str(S_success), memory |-> m])

\* round(x, 2) of the rational num / den, as a float in hundredths.
Round2(num, den) ==
    LET q == (100 * num) \div den
        twice == 2 * ((100 * num) % den)
    IN  Fraction(IF twice > den \/ (twice = den /\ q % 2 = 1) THEN q + 1 ELSE q, 100)

\* GET /research-progress: the body of the response
get_research_progress_body(m) ==
    LET progress == GetOr(m, "progress", PyDict(<<>>))
        completed_tasks == Cardinality({k \in DOMAIN progress.v : progress.v[k] = PyBool(TRUE)})
        total_tasks == Cardinality(DOMAIN progress.v)
        total(k) == PyInt(Len(GetOr(m, k, PyList(<<>>)).v))
    IN  PyDict([status |-> Str(S_success),
                progress |-> progress,
                completion_percentage |->
                    IF total_tasks > 0 THEN Round2(completed_tasks * 100, total_tasks)
                    ELSE PyInt(0),
                research_question |-> GetOr(m, "research_question", EmptyStr),
                total_citations |-> total("citations"),
                total_notes |-> total("notes"),
                total_reviews |-> total("literature_reviews"),
                total_hypotheses |-> total("hypotheses"),
                total_drafts |-> total("drafts")])

\* A handler that works on a BaseAgent of its own and runs in one step: the
\* response is made of load_memory's result by the handler's body, unless
\* BaseAgent() or load_memory raises.
BaseAgentQuery(p, name, prefix) ==
    /\ pc[p] = "idle"
    /\ ops < MaxOps
    /\ ops' = ops + 1
    /\ LET base_agent == BaseAgent_new
           r == load_memory(fs[AgentFile])
           body(m) == CASE name = "get_memory" -> get_memory_body(m)
                        [] name = "progress" -> get_research_progress_body(m)
       IN  result' = [result EXCEPT ![p] =
               IF base_agent.raised THEN HttpError(500, prefix, base_agent.exc)
               ELSE IF r.raised THEN HttpError(500, prefix, r.exc)
               ELSE Ok(body(r.value))]
    /\ op' = [op EXCEPT ![p] = name]
    /\ input' = [input EXCEPT ![p] = NoneValue]
    /\ memory' = [memory EXCEPT ![p] = NoneValue]
    /\ local' = [local EXCEPT ![p] = NoneValue]
    /\ ObserveReceive(p)
    /\ run' = NoRun
    /\ calls' = [calls EXCEPT ![p] = 0]
    /\ UNCHANGED <<cwd, fs, dirs, clock, pc, completed, after_clear>>

(* GET /memory *)
get_memory(p) == BaseAgentQuery(p, "get_memory", "Error loading memory")

(* GET /research-progress *)
get_research_progress(p) == BaseAgentQuery(p, "progress", "Progress tracking error")

(* POST /analyze-sources: LiteratureReviewAgent.analyze_source_quality *)
analyze_source_quality(p) ==
    /\ pc[p] = "idle"
    /\ ops < MaxOps
    /\ ops' = ops + 1
    /\ \E inp \in SourceAnalysisInputs, outcome \in GatewayOutcomes :
        /\ input' = [input EXCEPT ![p] = inp]
        /\ result' = [result EXCEPT ![p] = Ok(PyDict(
               [status |-> Str(S_success),
                analysis |-> PyDict(
                    [analysis |-> Str(generate_response(outcome)),
                     sources_count |-> PyInt(Len(inp.citations.v)),
                     timestamp |-> isoformat(clock)])]))]
    /\ clock' = clock + 1
    /\ op' = [op EXCEPT ![p] = "analyze"]
    /\ memory' = [memory EXCEPT ![p] = NoneValue]
    /\ local' = [local EXCEPT ![p] = NoneValue]
    /\ ObserveReceive(p)
    /\ run' = NoRun
    /\ calls' = [calls EXCEPT ![p] = 1]
    /\ UNCHANGED <<cwd, fs, dirs, pc, completed, after_clear>>

(* POST /compare-drafts: DraftPolisherAgent.compare_versions *)
compare_draft_versions(p) ==
    /\ pc[p] = "idle"
    /\ ops < MaxOps
    /\ ops' = ops + 1
    /\ \E inp \in ComparisonInputs, outcome \in GatewayOutcomes :
        /\ input' = [input EXCEPT ![p] = inp]
        /\ result' = [result EXCEPT ![p] = Ok(PyDict(
               [status |-> Str(S_success),
                comparison |-> PyDict(
                    [comparison_analysis |-> Str(generate_response(outcome)),
                     version1_length |-> PyInt(WordCount(inp.version1.v)),
                     version2_length |-> PyInt(WordCount(inp.version2.v)),
                     timestamp |-> isoformat(clock)])]))]
    /\ clock' = clock + 1
    /\ op' = [op EXCEPT ![p] = "compare"]
    /\ memory' = [memory EXCEPT ![p] = NoneValue]
    /\ local' = [local EXCEPT ![p] = NoneValue]
    /\ ObserveReceive(p)
    /\ run' = NoRun
    /\ calls' = [calls EXCEPT ![p] = 1]
    /\ UNCHANGED <<cwd, fs, dirs, pc, completed, after_clear>>

(* POST /generate-alternatives:
   HypothesisValidatorAgent.generate_alternative_hypotheses *)
generate_alternative_hypotheses(p) ==
    \E inp \in AlternativesInputs : Receive(p, "alternatives", inp)

AlternativesLoad(p) ==
    /\ pc[p] = "load" /\ op[p] = "alternatives"
    /\ LET r == load_memory(fs[AgentFile]) IN
        /\ ObserveLoad(p, r)
        /\ IF r.raised
           THEN Abort(p, "Alternative generation error", r.exc)
           ELSE /\ memory' = [memory EXCEPT ![p] = r.value]
                /\ pc' = [pc EXCEPT ![p] = "query"]
                /\ UNCHANGED <<local, result, run>>
    /\ UNCHANGED <<calls, cwd, fs, dirs, clock, ops, op, input, before, save_old, failed,
                   completed, after_clear>>

\* An alternatives query that saves the memory it loaded; C12 tells it from
\* AlternativesGenerate.
AlternativesGenerate_saving(p) ==
    /\ pc[p] = "query" /\ op[p] = "alternatives"
    /\ \E outcome \in GatewayOutcomes :
        /\ result' = [result EXCEPT ![p] = Ok(PyDict(
               [status |-> Str(S_success),
                research_question |-> input[p].research_question,
                alternative_hypotheses |->
                    StrList(parse_alternatives(generate_response(outcome)))]))]
        /\ failed' = [failed EXCEPT ![p] = ~outcome.ok]
    /\ fs' = [fs EXCEPT ![AgentFile] = save_memory_dump(memory[p])]
    /\ pc' = [pc EXCEPT ![p] = "idle"]
    /\ calls' = [calls EXCEPT ![p] = @ + 1]
    /\ UNCHANGED <<cwd, dirs, clock, ops, op, input, memory, local, before, seen, loaded,
                   torn, save_old, overlap, completed, after_clear, run>>

AlternativesGenerate(p) ==
    /\ pc[p] = "query" /\ op[p] = "alternatives"
    /\ \E outcome \in GatewayOutcomes :
        /\ result' = [result EXCEPT ![p] = Ok(PyDict(
               [status |-> Str(S_success),
                research_question |-> input[p].research_question,
                alternative_hypotheses |->
                    StrList(parse_alternatives(generate_response(outcome)))]))]
        /\ failed' = [failed EXCEPT ![p] = ~outcome.ok]
    /\ pc' = [pc EXCEPT ![p] = "idle"]
    /\ calls' = [calls EXCEPT ![p] = @ + 1]
    /\ UNCHANGED <<cwd, fs, dirs, clock, ops, op, input, memory, local, before, seen, loaded,
                   torn, save_old, overlap, completed, after_clear, run>>


(***************************************************************************)
(* The agents' parsing methods called on their own, on the texts a gateway *)
(* may return, and update_memory called on its own.                        *)
(***************************************************************************)
MaxLines == 3
MaxItems == 12

\* Lines of a response to the validation prompt.
ScoreLines ==
    {<<"C", "L", "A", "R", "I", "T", "Y", ":", " ", "8">>,
     <<"T", "E", "S", "T", "A", "B", "I", "L", "I", "T", "Y", ":", " ", "6">>,
     <<"c", "l", "a", "r", "i", "t", "y", " ", "1", "0", "/", "1", "0">>,
     <<"R", "e", "l", "e", "v", "a", "n", "c", "e", " ", "1", "2", " ", "7">>,
     <<"F", "e", "a", "s", "i", "b", "i", "l", "i", "t", "y", ":", " ", "n", "/", "a">>,
     <<"x", " ", "3">>,
     <<"T", "H", "E", "O", "R", "E", "T", "I", "C", "A", "L", "_", "9", " ", "0">>}
\* Lines of a response to a polish prompt.
SectionLines ==
    {<<"P", "O", "L", "I", "S", "H", "E", "D", " ", "T", "E", "X", "T">>,
     <<"I", "M", "P", "R", "O", "V", "E", "M", "E", "N", "T", "S", " ", "M", "A", "D", "E">>,
     <<"S", "u", "g", "g", "e", "s", "t", "i", "o", "n", "s", ":">>,
     <<"S", "U", "G", "G", "E", "S", "T", "I", "O", "N", "S">>,
     <<"Q", "U", "A", "L", "I", "T", "Y", " ", "S", "C", "O", "R", "E">>,
     <<"-", " ", "E", "x", "c", "e", "l", "l", "e", "n", "t">>,
     <<"1", ".", " ", "g", "o", "o", "d">>,
     <<"-", " ", "w", "e", "l", "l">>,
     <<"*", " ", "H", "i", "g", "h", " ", "Q", "u", "a", "l", "i", "t", "y">>,
     <<"4", ".", " ", "x">>,
     <<"a", " ", "b">>}
\* The responses of at most MaxLines lines, each as its sequence of lines.
LineTexts(lines) == UNION {[1 .. n -> lines] : n \in 0 .. MaxLines}
\* The responses that are a list of k numbered items, under a heading or
\* under none.
ItemTexts ==
    {(IF heading = <<>> THEN <<>> ELSE <<heading>>) \o [i \in 1 .. k |-> mark \o Decimal(i)] :
        heading \in {<<>>, W_IMPROVEMENTS, W_SUGGESTIONS},
        mark \in {<<"-", " ">>, <<"1", ".", " ">>, W_Hypothesis \o <<" ">>},
        k \in 0 .. MaxItems}

\* The drafts _polish_draft is called with: those of the requests and one
\* with whitespace around its text.
UnitDrafts ==
    DraftInputs \cup
    {[draft_text |-> Str(<<" ", "d", "\n">>), polish_type |-> Str(<<"g", "r", "a", "m", "m", "a", "r">>),
      target_audience |-> Str(<<"a", "c", "a", "d", "e", "m", "i", "c">>)]}

\* What a method returns for the response.
Apply(method, inp) ==
    CASE method = "_validate_hypothesis" -> validate_hypothesis(inp.response, clock)
      [] method = "_polish_draft" ->
            LET polished_result == polish_draft(inp.draft, inp.response)
            IN  [polished_result |-> polished_result,
                 draft_entry |-> Item(draft_store(DefaultMemory, inp.draft, polished_result, clock),
                                      "drafts").v[1]]
      [] method = "_generate_recommendations" -> parse_recommendations(inp.response)
      [] method = "generate_alternative_hypotheses" -> parse_alternatives(inp.response)

\* One method is called with one response.  The methods keep nothing from
\* call to call, so one call is looked at.
Call(p) ==
    /\ pc[p] = "idle"
    /\ op[p] = "none"
    /\ \E method \in {"_validate_hypothesis", "_polish_draft", "_generate_recommendations",
                      "generate_alternative_hypotheses"} :
       \E lines \in CASE method = "_validate_hypothesis" -> LineTexts(ScoreLines)
                      [] method = "_polish_draft" -> LineTexts(SectionLines) \cup ItemTexts
                      [] OTHER -> ItemTexts :
       \E draft \in UnitDrafts :
        LET inp == [lines |-> lines, response |-> JoinLines(lines), draft |-> draft] IN
        /\ op' = [op EXCEPT ![p] = method]
        /\ input' = [input EXCEPT ![p] = inp]
        /\ result' = [result EXCEPT ![p] = Apply(method, inp)]
    /\ UNCHANGED <<calls, cwd, fs, dirs, clock, ops, pc, memory, local, before, seen, loaded, torn,
                   save_old, failed, overlap, completed, after_clear, run>>

\* BaseAgent.update_memory: the memory it saves.
\* An update that extends a list field with a list value; C19 tells it from
\* update_memory_value.
update_memory_value_extend(m, key, value) ==
    IF HasKey(m, key)
    THEN IF Item(m, key).t = "list"
         THEN SetItem(m, key, IF value.t = "list" THEN ListExtend(Item(m, key), value)
                                                  ELSE ListAppend(Item(m, key), value))
         ELSE SetItem(m, key, value)
    ELSE SetItem(m, key, value)
update_memory_value(m, key, value) ==
    IF HasKey(m, key)
    THEN IF Item(m, key).t = "list"
         THEN SetItem(m, key, ListAppend(Item(m, key), value))
         ELSE SetItem(m, key, value)
    ELSE SetItem(m, key, value)

\* BaseAgent.update_memory called by one process, nothing else running: its
\* load_memory and save_memory are one step.
update_memory(p) ==
    /\ pc[p] = "idle"
    /\ ops < MaxOps
    /\ ops' = ops + 1
    /\ \E key \in {"citations", "research_question", "progress", "topic"},
          value \in {Str(<<"v">>), StrList(<< <<"v">> >>)} :
        LET r == load_memory(fs[AgentFile]) IN
        /\ input' = [input EXCEPT ![p] = [key |-> key, value |-> value]]
        /\ IF r.raised
           THEN /\ result' = [result EXCEPT ![p] = r]
                /\ UNCHANGED <<fs, dirs, after_clear>>
           ELSE /\ result' = [result EXCEPT ![p] = Returned(NoneValue)]
                /\ dirs' = dirs \cup Prefixes(Dirname(AgentFile))
                /\ fs' = [fs EXCEPT ![AgentFile] =
                              save_memory_dump(update_memory_value(r.value, key, value))]
                /\ after_clear' = FALSE
    /\ op' = [op EXCEPT ![p] = "update_memory"]
    /\ memory' = [memory EXCEPT ![p] = NoneValue]
    /\ local' = [local EXCEPT ![p] = NoneValue]
    /\ ObserveReceive(p)
    /\ run' = NoRun
    /\ calls' = [calls EXCEPT ![p] = 0]
    /\ UNCHANGED <<cwd, clock, pc, completed>>


(***************************************************************************)
(* Specifications.                                                         *)
(***************************************************************************)
Step(p) ==
    \/ LiteratureLoad(p) \/ LiteratureGenerate(p) \/ LiteratureReturn(p)
    \/ HypothesisLoad(p) \/ HypothesisGenerate(p) \/ HypothesisReturn(p)
    \/ DraftLoad(p) \/ DraftGenerate(p) \/ DraftReturn(p)
    \/ AlternativesLoad(p) \/ AlternativesGenerate(p)
    \/ SaveOpen(p) \/ SaveDump(p)

Request(p) ==
    \/ conduct_literature_review(p)
    \/ validate_hypothesis_request(p)
    \/ polish_draft_request(p)
    \/ analyze_source_quality(p)
    \/ generate_alternative_hypotheses(p)
    \/ compare_draft_versions(p)
    \/ clear_memory(p)
    \/ get_memory(p)
    \/ get_research_progress(p)

\* Requests arrive at any time: the handlers of two processes overlap.
Next == \E p \in Procs : Request(p) \/ Step(p)
Spec == Init /\ [][Next]_vars

\* Requests that do not overlap (one server process): one is received only
\* when no handler runs.
SeqNext == \E p \in {"w1"} : (AllIdle /\ Request(p)) \/ Step(p)
SeqSpec == Init /\ [][SeqNext]_vars


\* Requests that do not overlap, against a store that may refuse the write.
FaultNext == SeqNext \/ SaveFail("w1") \/ SaveDumpFail("w1")
FaultSpec == Init /\ [][FaultNext]_vars


\* Task requests of several connections handled by the event loop of one
\* server process (the elements of Procs are then the handler coroutines in
\* flight).  The loop runs one coroutine until it awaits, and lets another
\* one run only then.  YieldPoints are the positions at which a handler
\* awaits: the handlers of main.py call the agents' methods, which are plain
\* functions, and hold no await, so there are none.  The server is started
\* in the root directory.
YieldPoints_gateway == {"generate"}
YieldPoints == {}
LoopNext ==
    \E p \in Procs :
        /\ \A q \in Procs \ {p} : pc[q] \in {"idle"} \cup YieldPoints
        /\ \/ conduct_literature_review(p)
           \/ validate_hypothesis_request(p)
           \/ polish_draft_request(p)
           \/ LiteratureLoad(p) \/ LiteratureGenerate(p) \/ LiteratureReturn(p)
           \/ HypothesisLoad(p) \/ HypothesisGenerate(p) \/ HypothesisReturn(p)
           \/ DraftLoad(p) \/ DraftGenerate(p) \/ DraftReturn(p)
           \/ SaveOpen(p) \/ SaveDump(p)
LoopInit == Init /\ cwd = <<>>
LoopSpec == LoopInit /\ [][LoopNext]_vars


\* Requests that do not overlap, against a backing file that something other
\* than the agents may write (an editor, another program): it then holds the
\* JSON text of an empty object.
ForeignWrite ==
    /\ AllIdle
    /\ fs[AgentFile] # JsonText([t |-> "object", v |-> <<>>])
    /\ fs' = [fs EXCEPT ![AgentFile] = JsonText([t |-> "object", v |-> <<>>])]
    /\ dirs' = dirs \cup Prefixes(Dirname(AgentFile))
    /\ UNCHANGED <<calls, cwd, clock, ops, pc, op, input, memory, local, result, before, seen,
                   loaded, torn, save_old, failed, overlap, completed, after_clear, run>>
ForeignNext == SeqNext \/ ForeignWrite
ForeignSpec == Init /\ [][ForeignNext]_vars


\* The parsing methods on their own: the store plays no part.
UnitInit == Init /\ cwd = <<>> /\ fs[AgentFile] = Absent
UnitNext == Call("w1")
UnitSpec == UnitInit /\ [][UnitNext]_vars

\* update_memory on its own, call after call.
UpdateNext == update_memory("w1")
UpdateSpec == Init /\ [][UpdateNext]_vars


(***************************************************************************)
(* Properties.                                                             *)
(***************************************************************************)
TaskOps == {"literature", "hypothesis", "draft"}
ListOf(task) ==
    CASE task = "literature" -> "literature_reviews"
      [] task = "hypothesis" -> "hypotheses"
      [] task = "draft" -> "drafts"
FlagOf(task) ==
    CASE task = "literature" -> "literature_review_completed"
      [] task = "hypothesis" -> "hypothesis_validated"
      [] task = "draft" -> "draft_polished"
ListFields == {"citations", "notes", "literature_reviews", "hypotheses", "drafts"}

IsPrefix(xs, ys) == Len(xs) <= Len(ys) /\ SubSeq(ys, 1, Len(xs)) = xs
Last(xs) == xs[Len(xs)]
FlagSet(doc, task) == Item(Item(doc, "progress"), FlagOf(task)) = PyBool(TRUE)

\* The worker's task request has finished its save_memory.
Saved(p) == op[p] \in TaskOps /\ pc[p] \in {"return", "idle"} /\ loaded[p] # NoneValue
            /\ ~loaded[p].raised
\* The worker's request has returned a response with status 200.
Succeeded(p) == pc[p] = "idle" /\ op[p] # "none" /\ result[p].status = 200
\* The entry the worker's task request appended to its list.
OwnEntry(p) == Last(Item(memory[p], ListOf(op[p])).v)

\* C1: when the load-save cycles of two task requests overlap, the document
\* persisted after both have saved holds the entry each of them appended and
\* the progress flag each of them set.
C1_NoLostUpdate ==
    \A p, q \in Procs :
        (p # q /\ Saved(p) /\ Saved(q) /\ q \in overlap[p] /\ ~after_clear) =>
            /\ OwnEntry(p) \in Range(Item(Persisted, ListOf(op[p])).v)
            /\ OwnEntry(q) \in Range(Item(Persisted, ListOf(op[q])).v)
            /\ FlagSet(Persisted, op[p])
            /\ FlagSet(Persisted, op[q])

\* C2: a load that runs while a save of the same file is between its open
\* and its dump returns the document persisted before that save or the
\* document being saved.
C2_NoTornRead ==
    \A p \in Procs :
        (torn[p].during /\ ~loaded[p].raised) =>
            \/ loaded[p].value = torn[p].old
            \/ loaded[p].value = torn[p].new


\* C3: across a request that is no clear, each of citations, notes,
\* literature_reviews, hypotheses and drafts of the document persisted when
\* the request was received is a prefix of the same sequence persisted when
\* the request has returned.
C3_AppendOnly ==
    \A p \in Procs :
        (AllIdle /\ op[p] \notin {"none", "clear"}) =>
            \A k \in ListFields :
                IsPrefix(Item(View(before[p]), k).v, Item(Persisted, k).v)
C3_Witness ==
    /\ Succeeded("w1")
    /\ op["w1"] = "literature"
    /\ Len(Item(View(before["w1"]), "citations").v) = 1
    /\ Len(Item(Persisted, "citations").v) = 3
    /\ Len(Item(Persisted, "literature_reviews").v) = 2

\* C4: the progress flag of every task that has completed since the start
\* (or since the last clear) is true in the persisted document whenever no
\* request is running, whatever requests have been handled since.
C4_ProgressMonotonic ==
    AllIdle => \A task \in completed : FlagSet(Persisted, task)
C4_Witness ==
    /\ Succeeded("w1")
    /\ op["w1"] = "draft"
    /\ "hypothesis" \in completed
    /\ FlagSet(Persisted, "hypothesis")

\* C5: a load_memory that finds the backing file absent or holding anything
\* but a JSON document returns the default document and does not raise.
C5_LoadFailsSoft ==
    \A p \in Procs :
        (loaded[p] # NoneValue /\ seen[p].kind # "json") =>
            loaded[p] = Returned(DefaultMemory)

\* C6: the load_memory that follows a save_memory returns the document that
\* was saved, and saving what load_memory returns leaves the persisted
\* document as it was.
C6_RoundTrip ==
    /\ \A p \in Procs :
        pc[p] = "return" => load_memory(fs[AgentFile]) = Returned(memory[p])
    /\ ~load_memory(fs[AgentFile]).raised =>
        View(save_memory_dump(load_memory(fs[AgentFile]).value)) = Persisted
C6_Witness ==
    /\ pc["w1"] = "return"
    /\ op["w1"] = "hypothesis"
    /\ Len(Item(memory["w1"], "literature_reviews").v) = 1
    /\ fs[AgentFile].kind = "json"

\* C7: after n literature reviews with citations in a row, the persisted
\* citations are those persisted before the first of them followed by the
\* citations of each request in the order of the requests.
C7_CitationsConcatenate ==
    (AllIdle /\ run.n >= 1) => Item(Persisted, "citations").v = run.base \o run.added
C7_Witness ==
    /\ AllIdle
    /\ run.n = 2
    /\ run.base # <<>>
    /\ Len(run.added) = 3

\* C8: a literature review with a research question, citations and notes,
\* received when the backing file is absent, leaves exactly its input, the
\* flag literature_review_completed and one review entry that counts its
\* citations.
C8_FirstReview ==
    \A p \in Procs :
        (/\ Succeeded(p)
         /\ op[p] = "literature"
         /\ before[p] = Absent
         /\ Truthy(input[p].research_question)
         /\ Truthy(input[p].citations)
         /\ Truthy(input[p].notes)) =>
            /\ Item(Persisted, "research_question") = input[p].research_question
            /\ Item(Persisted, "citations") = input[p].citations
            /\ Item(Persisted, "notes") = input[p].notes
            /\ FlagSet(Persisted, "literature")
            /\ Len(Item(Persisted, "literature_reviews").v) = 1
            /\ Item(Item(Persisted, "literature_reviews").v[1], "sources_analyzed")
                   = PyInt(Len(input[p].citations.v))
C8_Witness ==
    /\ Succeeded("w1")
    /\ op["w1"] = "literature"
    /\ before["w1"] = Absent
    /\ Len(input["w1"].citations.v) = 2
    /\ Truthy(input["w1"].notes)
    /\ Truthy(input["w1"].research_question)

\* C9: once clear_memory has reported success, and until a save begins, a
\* load of the agents' backing file gives the default document.
C9_ClearEmptiesStore ==
    after_clear => Persisted = DefaultMemory

\* C10: a task request whose primary gateway call failed goes on: it has
\* appended one entry (holding the error message where the entry keeps the
\* response) to the list it loaded and set its flag, it saves that document,
\* and it returns a response with status 200 and status "success".
C10_GatewayFailureDegrades ==
    \A p \in Procs :
        (failed[p] /\ op[p] \in TaskOps) =>
            LET list == Item(memory[p], ListOf(op[p])).v
                message == Str(ErrorPrefix \o ErrorDetail)
            IN  /\ pc[p] \in {"save_open", "save_dump", "return", "idle"}
                /\ list = Append(Item(loaded[p].value, ListOf(op[p])).v, Last(list))
                /\ op[p] = "literature" => Item(Last(list), "review") = message
                /\ op[p] = "hypothesis" =>
                       Item(Item(Last(list), "validation"), "detailed_analysis") = message
                /\ FlagSet(memory[p], op[p])
                /\ pc[p] \in {"return", "idle"} => Persisted = memory[p]
                /\ pc[p] = "idle" =>
                       /\ result[p].status = 200
                       /\ Item(result[p].body, "status") = Str(S_success)
C10_Witness ==
    /\ failed["w1"]
    /\ op["w1"] = "draft"
    /\ Succeeded("w1")
    /\ Persisted = memory["w1"]

\* C11: a task request whose save_memory fails is not recovered: the step
\* that leaves the save without writing ends the request with an error
\* response (status 500, never a success body) whose detail names the
\* operation and the cause, and the backing file is as it was.
C11_SaveFailureSurfaces ==
    [][\A p \in Procs :
        (pc[p] = "save_open" /\ pc'[p] \notin {"save_open", "save_dump"}) =>
            /\ pc'[p] = "idle"
            /\ fs' = fs
            /\ result'[p].status = 500
            /\ "body" \notin DOMAIN result'[p]
            /\ result'[p].detail[1] \in {"Literature review error",
                                         "Hypothesis validation error",
                                         "Draft polishing error"}
            /\ result'[p].detail[2] = "PermissionError"]_vars
C11_Witness ==
    /\ pc["w1"] = "idle"
    /\ op["w1"] = "draft"
    /\ memory["w1"] # NoneValue
    /\ result["w1"] = HttpError(500, "Draft polishing error", "PermissionError")

\* C12: no step of a source-quality analysis, an alternative-hypotheses
\* generation or a version comparison changes a file or creates a directory,
\* whatever its input and whatever the gateway answers.
C12_QueriesDoNotWrite ==
    [][\A p \in Procs :
        op'[p] \in {"analyze", "alternatives", "compare"} => (fs' = fs /\ dirs' = dirs)]_vars
C12_Witness ==
    /\ pc["w1"] = "idle"
    /\ op["w1"] = "alternatives"
    /\ result["w1"].status = 200
    /\ failed["w1"]
    /\ fs[AgentFile] = Absent

\* C13: a read-memory request succeeds and returns the session document a
\* task agent's load_memory would return at that moment.
C13_ReadMemory ==
    \A p \in Procs :
        (pc[p] = "idle" /\ op[p] = "get_memory") =>
            /\ result[p].status = 200
            /\ Item(result[p].body, "status") = Str(S_success)
            /\ Item(result[p].body, "memory") = View(before[p])

\* C14: a progress request succeeds and returns the three flags, the
\* percentage 100 * (true flags) / (flags) rounded to two decimals, and the
\* lengths of the five stored sequences.
C14_Progress ==
    \A p \in Procs :
        (pc[p] = "idle" /\ op[p] = "progress") =>
            LET doc == View(before[p])
                flags == Item(doc, "progress").v
                nTrue == Cardinality({k \in DOMAIN flags : flags[k] = PyBool(TRUE)})
                count(k) == PyInt(Len(Item(doc, k).v))
            IN  /\ result[p].status = 200
                /\ Item(result[p].body, "progress") = Item(doc, "progress")
                /\ Cardinality(DOMAIN flags) = 3
                /\ Item(result[p].body, "completion_percentage") =
                       CASE nTrue = 0 -> PyFloat(0, 1)
                         [] nTrue = 1 -> PyFloat(3333, 100)
                         [] nTrue = 2 -> PyFloat(6667, 100)
                         [] nTrue = 3 -> PyFloat(100, 1)
                /\ Item(result[p].body, "total_citations") = count("citations")
                /\ Item(result[p].body, "total_notes") = count("notes")
                /\ Item(result[p].body, "total_reviews") = count("literature_reviews")
                /\ Item(result[p].body, "total_hypotheses") = count("hypotheses")
                /\ Item(result[p].body, "total_drafts") = count("drafts")

\* The standalone integers 1-10 of a line: the maximal runs of word
\* characters that read as one of the numerals 1, ..., 10.
Numerals == <<<<"1">>, <<"2">>, <<"3">>, <<"4">>, <<"5">>, <<"6">>, <<"7">>, <<"8">>, <<"9">>,
              <<"1", "0">>>>
WordStarts(line) ==
    {i \in DOMAIN line : line[i] \in WordChars /\ (i = 1 \/ line[i - 1] \notin WordChars)}
WordAt(line, i) ==
    LET ends == {j \in i .. Len(line) :
                    /\ \A k \in i .. j : line[k] \in WordChars
                    /\ (j = Len(line) \/ line[j + 1] \notin WordChars)}
    IN  SubSeq(line, i, CHOOSE j \in ends : TRUE)
StandaloneIntegers(line) == {i \in WordStarts(line) : WordAt(line, i) \in Range(Numerals)}
FirstStandaloneInteger(line) ==
    LET first == CHOOSE i \in StandaloneIntegers(line) : \A j \in StandaloneIntegers(line) : i <= j
    IN  CHOOSE n \in DOMAIN Numerals : Numerals[n] = WordAt(line, first)
NamesCriterion(line) == \E criterion \in Criteria : Contains(Lower(line), Lower(criterion))
Collected(line) == NamesCriterion(line) /\ StandaloneIntegers(line) # {}
RECURSIVE CollectedTotal(_)
CollectedTotal(lines) ==
    IF lines = <<>> THEN 0
    ELSE (IF Collected(Head(lines)) THEN FirstStandaloneInteger(Head(lines)) ELSE 0)
         + CollectedTotal(Tail(lines))

\* C15: the overall score of a response is the mean of the scores collected
\* from its lines, one from each line that names a criterion (in any case)
\* and has a standalone integer 1-10, namely the first such integer of the
\* line; it is 5.0 when no score is collected.
C15_OverallScore ==
    \A p \in Procs :
        op[p] = "_validate_hypothesis" =>
            LET score == Item(result[p], "overall_score")
                collected == SelectSeq(input[p].lines, Collected)
            IN  /\ score.t = "float"
                /\ collected = <<>> => score = PyFloat(5, 1)
                /\ collected # <<>> =>
                       score.v[1] * Len(collected) = CollectedTotal(input[p].lines) * score.v[2]
C15_Witness ==
    /\ op["w1"] = "_validate_hypothesis"
    /\ input["w1"].lines = <<<<"C", "L", "A", "R", "I", "T", "Y", ":", " ", "8">>,
                             <<"T", "E", "S", "T", "A", "B", "I", "L", "I", "T", "Y", ":", " ", "6">>>>
    /\ Item(result["w1"], "overall_score") = PyFloat(7, 1)

\* The quality rules in priority order: the words of each and its score in
\* halves (9.0, 7.5, 6.0).
QualityRules ==
    <<[words |-> {<<"E", "X", "C", "E", "L", "L", "E", "N", "T">>, <<"H", "I", "G", "H", " ", "Q", "U", "A", "L", "I", "T", "Y">>}, halves |-> 18],
      [words |-> {<<"G", "O", "O", "D">>, <<"W", "E", "L", "L">>}, halves |-> 15],
      [words |-> {<<"I", "M", "P", "R", "O", "V", "E", "M", "E", "N", "T">>}, halves |-> 12]>>
RuleMatches(n, text) == \E w \in QualityRules[n].words : Contains(Upper(text), w)

\* C16: the quality score of a response is the score of the first rule, in
\* the order excellent / high quality (9.0), good / well (7.5), improvement
\* (6.0), one of whose words occurs in the response in any case, and 7.0
\* when no rule matches; so it is always one of 9.0, 7.5, 6.0 and 7.0.
C16_QualityScore ==
    \A p \in Procs :
        op[p] = "_polish_draft" =>
            LET score == result[p].polished_result.quality_score
                matching == {n \in DOMAIN QualityRules : RuleMatches(n, input[p].response)}
                first == CHOOSE n \in matching : \A k \in matching : n <= k
            IN  /\ score \in {PyFloat(9, 1), PyFloat(15, 2), PyFloat(6, 1), PyFloat(7, 1)}
                /\ matching = {} => score = PyFloat(7, 1)
                /\ matching # {} => score.v[1] * 2 = QualityRules[first].halves * score.v[2]
C16_Witness ==
    /\ op["w1"] = "_polish_draft"
    /\ Contains(input["w1"].response, <<"g", "o", "o", "d">>)
    /\ Contains(input["w1"].response, <<"E", "x", "c", "e", "l", "l", "e", "n", "t">>)
    /\ result["w1"].polished_result.quality_score = PyFloat(9, 1)

\* C17: when no line of the response contains a text-block marker (in any
\* case), the extracted polished text is the original draft, character for
\* character, and the draft entry built from it has its polished draft equal
\* to its original draft.
C17_FallbackText ==
    \A p \in Procs :
        (/\ op[p] = "_polish_draft"
         /\ \A i \in DOMAIN input[p].lines :
                \A marker \in TextMarkers : ~Contains(Upper(input[p].lines[i]), marker))
        => /\ result[p].polished_result.polished_text = input[p].draft.draft_text
           /\ Item(result[p].draft_entry, "polished_draft") = Item(result[p].draft_entry, "original_draft")
           /\ Item(result[p].draft_entry, "original_draft") = input[p].draft.draft_text
C17_Witness ==
    /\ op["w1"] = "_polish_draft"
    /\ input["w1"].lines = <<W_IMPROVEMENTS \o <<" ", "M", "A", "D", "E">>, <<"-", " ", "w", "e", "l", "l">>, <<"a", " ", "b">> >>
    /\ input["w1"].draft.draft_text = Str(<<" ", "d", "\n">>)
    /\ result["w1"].polished_result.polished_text = Str(<<" ", "d", "\n">>)
    /\ Item(result["w1"].draft_entry, "polished_draft") = Str(<<" ", "d", "\n">>)

\* The first k elements of a list, in order, or all of it when it has fewer.
FirstK(xs, k) == [i \in 1 .. (IF Len(xs) < k THEN Len(xs) ELSE k) |-> xs[i]]
\* A list of items (see ItemTexts) without its heading, its heading, and the
\* first character of its items.
ItemsOf(lines) ==
    IF lines # <<>> /\ Head(lines) \in {W_IMPROVEMENTS, W_SUGGESTIONS} THEN Tail(lines) ELSE lines
HeadingOf(lines) ==
    IF lines # <<>> /\ Head(lines) \in {W_IMPROVEMENTS, W_SUGGESTIONS} THEN Head(lines) ELSE <<>>
LeadOf(lines) == IF ItemsOf(lines) = <<>> THEN "" ELSE Head(ItemsOf(lines))[1]
\* The twelve bullet lines of the example, under their heading.
TwelveBullets == <<W_IMPROVEMENTS>> \o [i \in 1 .. 12 |-> <<"-", " ">> \o Decimal(i)]

\* C18: no capped list is longer than its cap (improvements 10, suggestions
\* 5, recommendations 5, alternatives 3); on a response that is a list of
\* items, each list is the first cap-many of the items that qualify for it,
\* in their order (bullet or numbered items under the section's heading for
\* improvements and suggestions, numbered items for recommendations,
\* numbered or 'Hypothesis' items for alternatives); twelve bullet lines
\* under the improvements heading give exactly the first ten.
C18_Caps ==
    \A p \in Procs :
        LET lines == input[p].lines
            items == ItemsOf(lines)
            isItems == lines \in ItemTexts
        IN  /\ op[p] = "_polish_draft" =>
                LET improvements == result[p].polished_result.improvements
                    suggestions == result[p].polished_result.suggestions
                IN  /\ Len(improvements.v) <= 10
                    /\ Len(suggestions.v) <= 5
                    /\ improvements = StrList(FirstK(ImprovementsScan(lines, FALSE), 10))
                    /\ suggestions = StrList(FirstK(SuggestionsScan(lines, FALSE), 5))
                    /\ isItems =>
                        /\ improvements =
                              IF HeadingOf(lines) = W_IMPROVEMENTS /\ LeadOf(lines) \in {"-", "1"}
                              THEN StrList(FirstK(items, 10)) ELSE StrList(<<>>)
                        /\ suggestions =
                              IF HeadingOf(lines) = W_SUGGESTIONS /\ LeadOf(lines) \in {"-", "1"}
                              THEN StrList(FirstK(items, 5)) ELSE StrList(<<>>)
                    /\ lines = TwelveBullets =>
                          improvements = StrList([i \in 1 .. 10 |-> <<"-", " ">> \o Decimal(i)])
            /\ op[p] = "_generate_recommendations" =>
                /\ Len(result[p]) <= 5
                /\ isItems => result[p] = IF LeadOf(lines) = "1" THEN FirstK(items, 5) ELSE <<>>
            /\ op[p] = "generate_alternative_hypotheses" =>
                /\ Len(result[p]) <= 3
                /\ isItems => result[p] = IF LeadOf(lines) \in {"1", "H"} THEN FirstK(items, 3) ELSE <<>>
C18_Witness ==
    /\ op["w1"] = "_polish_draft"
    /\ input["w1"].lines = TwelveBullets
    /\ Len(result["w1"].polished_result.improvements.v) = 10
    /\ result["w1"].polished_result.improvements.v[10] = Str(<<"-", " ", "1", "0">>)

\* C19: after update_memory(key, value) has returned, the persisted document
\* differs from the one it loaded in the field key only: a field that held a
\* list holds the same elements followed by value as one new last element, a
\* field that held anything else holds value, and a field the document did
\* not have is added with value.
C19_MergeAppend ==
    \A p \in Procs :
        (op[p] = "update_memory" /\ ~result[p].raised) =>
            LET old == load_memory(before[p]).value
                new == Persisted
                key == input[p].key
                value == input[p].value
            IN  /\ new.t = "dict"
                /\ DOMAIN new.v = DOMAIN old.v \cup {key}
                /\ \A k \in DOMAIN old.v \ {key} : new.v[k] = old.v[k]
                /\ IF key \in DOMAIN old.v /\ old.v[key].t = "list"
                   THEN /\ new.v[key].t = "list"
                        /\ Len(new.v[key].v) = Len(old.v[key].v) + 1
                        /\ \A i \in 1 .. Len(old.v[key].v) : new.v[key].v[i] = old.v[key].v[i]
                        /\ new.v[key].v[Len(new.v[key].v)] = value
                   ELSE new.v[key] = value
C19_Witness ==
    /\ op["w1"] = "update_memory"
    /\ ~result["w1"].raised
    /\ before["w1"] = save_memory_dump(StoredMemory)
    /\ input["w1"] = [key |-> "citations", value |-> StrList(<< <<"v">> >>)]
    /\ Item(Persisted, "citations") = PyList(<<Str(<<"Z">>), StrList(<< <<"v">> >>)>>)
C19_WitnessUnknown ==
    /\ op["w1"] = "update_memory"
    /\ ~result["w1"].raised
    /\ input["w1"].key = "topic"
    /\ Item(Persisted, "topic") = input["w1"].value

\* The markers the extractors know, and the lines of a section as the
\* description has it: after the first line with one of the section's start
\* markers, before the first later line with any other known marker.
KnownMarkers == {W_IMPROVEMENTS, W_CORRECTIONS, W_POLISHED, W_SUGGESTIONS, W_QUALITY}
HasMarker(line, markers) == \E w \in markers : Contains(Upper(line), w)
SectionOf(lines, starts) ==
    LET begins == {i \in DOMAIN lines : HasMarker(lines[i], starts)}
        first == CHOOSE i \in begins : \A j \in begins : i <= j
        ends == {i \in DOMAIN lines : i > first /\ HasMarker(lines[i], KnownMarkers \ starts)}
        last == IF ends = {} THEN Len(lines) + 1 ELSE CHOOSE i \in ends : \A j \in ends : i <= j
    IN  IF begins = {} THEN {} ELSE {i \in DOMAIN lines : first < i /\ i < last}

\* C20: every improvement and every suggestion extracted from a response is
\* a line of its section, which begins at the first line containing the
\* section's start marker and ends at the first later line containing any
\* other known marker in any case: no line after that ending line is
\* collected.
C20_SectionEnds ==
    \A p \in Procs :
        op[p] = "_polish_draft" =>
            LET lines == input[p].lines
                improvements == result[p].polished_result.improvements.v
                suggestions == result[p].polished_result.suggestions.v
            IN  /\ \A n \in DOMAIN improvements :
                    \E i \in SectionOf(lines, {W_IMPROVEMENTS, W_CORRECTIONS}) :
                        improvements[n] = Str(Strip(lines[i]))
                /\ \A n \in DOMAIN suggestions :
                    \E i \in SectionOf(lines, {W_SUGGESTIONS}) :
                        suggestions[n] = Str(Strip(lines[i]))
\* The improvements half and the suggestions half of C20 on their own.
C20_ImprovementsEnd ==
    \A p \in Procs :
        op[p] = "_polish_draft" =>
            \A n \in DOMAIN result[p].polished_result.improvements.v :
                \E i \in SectionOf(input[p].lines, {W_IMPROVEMENTS, W_CORRECTIONS}) :
                    result[p].polished_result.improvements.v[n] = Str(Strip(input[p].lines[i]))
C20_SuggestionsEnd ==
    \A p \in Procs :
        op[p] = "_polish_draft" =>
            \A n \in DOMAIN result[p].polished_result.suggestions.v :
                \E i \in SectionOf(input[p].lines, {W_SUGGESTIONS}) :
                    result[p].polished_result.suggestions.v[n] = Str(Strip(input[p].lines[i]))

\* A line as the description collects it: it begins with a bullet, or has a
\* digit immediately followed by '.' within its first three characters.
BulletStyle(line) ==
    \/ Strip(line) # <<>> /\ Strip(line)[1] \in {"-", "*", Bullet}
    \/ \E i \in 1 .. 2 : i + 1 <= Len(line) /\ line[i] \in Digits /\ line[i + 1] = "."

\* C21: in a response of at most five lines (so that no cap applies) whose
\* first line is the improvements heading (or the suggestions heading) and
\* that has no other marker line, each later line
\* is among the extracted improvements (suggestions) exactly when it begins
\* with '-', '*', the bullet character, or a digit immediately followed by
\* '.' within its first three characters.
C21_CollectedLines ==
    \A p \in Procs :
        (/\ op[p] = "_polish_draft"
         /\ input[p].lines # <<>>
         /\ Len(input[p].lines) <= 5
         /\ \A i \in DOMAIN input[p].lines : i > 1 => ~HasMarker(input[p].lines[i], KnownMarkers))
        => LET lines == input[p].lines
               improvements == result[p].polished_result.improvements.v
               suggestions == result[p].polished_result.suggestions.v
           IN  /\ HasMarker(lines[1], {W_IMPROVEMENTS, W_CORRECTIONS}) =>
                    \A i \in 2 .. Len(lines) :
                        BulletStyle(lines[i]) <=> Str(Strip(lines[i])) \in Range(improvements)
               /\ HasMarker(lines[1], {W_SUGGESTIONS}) =>
                    \A i \in 2 .. Len(lines) :
                        BulletStyle(lines[i]) <=> Str(Strip(lines[i])) \in Range(suggestions)

\* The validation result as it is stored: in the entry process appends to
\* hypotheses, saved and loaded again.
StoredValidation(validation_result) ==
    LET inp == CHOOSE i \in HypothesisInputs : TRUE
        m == hypothesis_store(DefaultMemory, inp, inp.research_question, validation_result, clock)
    IN  Item(Item(View(save_memory_dump(m)), "hypotheses").v[1], "validation")

\* C22: a stored validation result has an overall score that is 5.0 or lies
\* between 1 and 10, and its assessment follows from the score: Strong from
\* 8 up, Moderate from 6 up to but not including 8, Weak below 6 (so the
\* default 5.0 is Weak).
C22_ScoreAndAssessment ==
    \A p \in Procs :
        op[p] = "_validate_hypothesis" =>
            LET stored == StoredValidation(result[p])
                score == Item(stored, "overall_score")
                assessment == Item(stored, "assessment")
                num == score.v[1]
                den == score.v[2]
            IN  /\ score.t = "float" /\ den > 0
                /\ score = PyFloat(5, 1) \/ (den <= num /\ num <= 10 * den)
                /\ assessment \in {Str(<<"S", "t", "r", "o", "n", "g">>),
                                   Str(<<"M", "o", "d", "e", "r", "a", "t", "e">>),
                                   Str(<<"W", "e", "a", "k">>)}
                /\ assessment = Str(<<"S", "t", "r", "o", "n", "g">>) <=> num >= 8 * den
                /\ assessment = Str(<<"M", "o", "d", "e", "r", "a", "t", "e">>)
                       <=> (6 * den <= num /\ num < 8 * den)
                /\ assessment = Str(<<"W", "e", "a", "k">>) <=> num < 6 * den
                /\ SelectSeq(input[p].lines, Collected) = <<>> =>
                       score = PyFloat(5, 1) /\ assessment = Str(<<"W", "e", "a", "k">>)
C22_Witness ==
    /\ op["w1"] = "_validate_hypothesis"
    /\ input["w1"].lines = << <<"C", "L", "A", "R", "I", "T", "Y", ":", " ", "8">> >>
    /\ Item(StoredValidation(result["w1"]), "overall_score") = PyFloat(8, 1)
    /\ Item(StoredValidation(result["w1"]), "assessment") = Str(<<"S", "t", "r", "o", "n", "g">>)

\* C23: while a task agent waits for its primary gateway call, the session
\* document it holds is still the document it loaded: nothing has been
\* appended to it and no field of it has been set.
C23_GatewayBeforeMutation ==
    \A p \in Procs :
        (pc[p] = "generate" /\ op[p] \in TaskOps) => memory[p] = loaded[p].value
\* The same for the hypothesis validator and the draft polisher only.
C23_ValidatorAndPolisher ==
    \A p \in Procs :
        (pc[p] = "generate" /\ op[p] \in {"hypothesis", "draft"}) => memory[p] = loaded[p].value

\* C24: an operation never makes more gateway calls than its fixed number
\* (literature review 2, hypothesis validation 2, draft polish 1, source
\* analysis 1, alternative hypotheses 1, version comparison 1), and when it
\* has answered it has made exactly that number, whether its calls failed or
\* not: a failed call is not made again.
C24_FixedGatewayCalls ==
    \A p \in Procs :
        LET number == CASE op[p] \in {"literature", "hypothesis"} -> 2
                        [] op[p] \in {"draft", "analyze", "alternatives", "compare"} -> 1
                        [] OTHER -> 0
        IN  /\ calls[p] <= number
            /\ (pc[p] = "idle" /\ op[p] # "none" /\ result[p].status = 200) => calls[p] = number
C24_Witness ==
    /\ pc["w1"] = "idle" /\ op["w1"] = "literature"
    /\ failed["w1"]
    /\ result["w1"].status = 200
    /\ calls["w1"] = 2

\* C25: in one server process, while a handler is between its load and the
\* end of its save, no other handler takes a load step or a save step.
C25_NoInterleaving ==
    [][\A p \in Procs : \A q \in Procs \ {p} :
          InCycle(p) => ~(pc[q] \in {"load", "save_open", "save_dump"} /\ pc'[q] # pc[q])]_vars
C25_Witness ==
    /\ Succeeded("w1") /\ op["w1"] = "literature"
    /\ Succeeded("w2") /\ op["w2"] = "draft"
    /\ Len(Item(Persisted, "literature_reviews").v) = 1
    /\ Len(Item(Persisted, "drafts").v) = 1
    /\ overlap["w1"] = {} /\ overlap["w2"] = {}

\* C26: when a task request has failed in its save, the document a load
\* returns next is the document that was persisted when the request was
\* received.
C26_FailedSaveKeepsDocument ==
    \A p \in Procs :
        (/\ pc[p] = "idle" /\ op[p] \in TaskOps
         /\ result[p].status = 500
         /\ loaded[p] # NoneValue /\ ~loaded[p].raised)
        => View(fs[AgentFile]) = View(before[p])

\* C27: when the backing file a task request loads holds well-formed JSON,
\* the document load returns has the seven session fields and the three
\* progress flags, and the request does not fail.
C27_LoadedDocumentComplete ==
    \A p \in Procs :
        (op[p] \in TaskOps /\ seen[p].kind = "json" /\ loaded[p] # NoneValue) =>
            /\ ~loaded[p].raised
            /\ loaded[p].value.t = "dict"
            /\ (ListFields \cup {"research_question", "progress"}) \subseteq DOMAIN loaded[p].value.v
            /\ {FlagOf(task) : task \in TaskOps} \subseteq DOMAIN Item(loaded[p].value, "progress").v
            /\ pc[p] = "idle" => result[p].status = 200

\* C28: in the persisted document each progress flag is true exactly when
\* the list of its task is not empty.
C28_FlagsMatchLists ==
    \A task \in TaskOps :
        FlagSet(Persisted, task) <=> Item(Persisted, ListOf(task)).v # <<>>
C28_Witness ==
    /\ Succeeded("w1") /\ op["w1"] = "hypothesis"
    /\ View(before["w1"]) = DefaultMemory
    /\ FlagSet(Persisted, "hypothesis") /\ Len(Item(Persisted, "hypotheses").v) = 1
    /\ ~FlagSet(Persisted, "draft") /\ Item(Persisted, "drafts").v = <<>>
    /\ ~FlagSet(Persisted, "literature") /\ Item(Persisted, "literature_reviews").v = <<>>

\* C29: in the persisted document the sources_analyzed of the literature
\* reviews add up to the number of citations.
C29_SourcesAddUp ==
    LET reviews == Item(Persisted, "literature_reviews").v
    IN  SumSeq([i \in DOMAIN reviews |-> Item(reviews[i], "sources_analyzed").v])
            = Len(Item(Persisted, "citations").v)
C29_Witness ==
    /\ Succeeded("w1") /\ op["w1"] = "literature"
    /\ Len(Item(Persisted, "literature_reviews").v) = 2
    /\ Item(Persisted, "citations") = StrList(<< <<"A">>, <<"B">>, <<"A">> >>)

\* The fields and the progress flags in which two documents differ.
ChangedFields(old, new) ==
    {k \in (DOMAIN old.v \cup DOMAIN new.v) \ {"progress"} :
        k \notin DOMAIN old.v \/ k \notin DOMAIN new.v \/ old.v[k] # new.v[k]}
ChangedFlags(old, new) ==
    LET a == Item(old, "progress").v
        b == Item(new, "progress").v
    IN  {k \in DOMAIN a \cup DOMAIN b : k \notin DOMAIN a \/ k \notin DOMAIN b \/ a[k] # b[k]}

\* C30: a task request that has saved changed, of the document it loaded,
\* only its own slice.  A hypothesis validation changed at most hypotheses
\* and the flag hypothesis_validated, and a research question supplied to it
\* is in the entry it appended but not the session's research question; a
\* draft polish changed at most drafts and the flag draft_polished; a
\* literature review changed neither hypotheses nor drafts nor the other two
\* flags, nor the research question when the supplied one is empty.
C30_OwnSliceOnly ==
    \A p \in Procs :
        Saved(p) =>
            LET old == loaded[p].value
                new == Persisted
                fields == ChangedFields(old, new)
                flags == ChangedFlags(old, new)
            IN  /\ flags \subseteq {FlagOf(op[p])}
                /\ op[p] = "hypothesis" =>
                    /\ fields \subseteq {"hypotheses"}
                    /\ Truthy(input[p].research_question) =>
                           Item(Last(Item(new, "hypotheses").v), "research_question")
                               = input[p].research_question
                /\ op[p] = "draft" => fields \subseteq {"drafts"}
                /\ op[p] = "literature" =>
                    /\ fields \cap {"hypotheses", "drafts"} = {}
                    /\ ~Truthy(input[p].research_question) => "research_question" \notin fields
C30_Witness ==
    /\ Succeeded("w1") /\ op["w1"] = "hypothesis"
    /\ input["w1"].research_question = Str(<<"R">>)
    /\ Item(loaded["w1"].value, "research_question") = Str(<<"P">>)
    /\ Item(Persisted, "research_question") = Str(<<"P">>)
    /\ Item(Last(Item(Persisted, "hypotheses").v), "research_question") = Str(<<"R">>)
    /\ ChangedFields(loaded["w1"].value, Persisted) = {"hypotheses"}

====
